---------------------------- MODULE Spec2Model ----------------------------
(***************************************************************************)
(* A model of the mind-map document engine: the reducer of                 *)
(* src/state/MindMapContext.tsx (document collections, selection and the   *)
(* snapshot history) as a state machine whose actions are the reducer's    *)
(* action types, the loading of the persisted state at startup, and the    *)
(* handlers of the application (lock, import, shapes, pointers, view).     *)
(***************************************************************************)
EXTENDS Integers, Sequences, FiniteSets, TLC

VARIABLES state, lastAction, steps, isLocked,
          interactionRef, pressed, readers,
          viewTransform, sizeRef, hasAutoCenteredRef

\* The canvas state of the application besides the lock.
canvasVars == <<interactionRef, pressed, readers, viewTransform, sizeRef, hasAutoCenteredRef>>

vars == <<state, lastAction, steps, isLocked, canvasVars>>

(***************************************************************************)
(* Bounds of the model.                                                    *)
(***************************************************************************)
MaxSteps == 3
MaxLen == 3

\* Lengths are counted in hundredths of a pixel.
Unit == 100

(***************************************************************************)
(* Values of the program.                                                  *)
(***************************************************************************)
null == "<null>"
undefined == "<undefined>"

ROOT_NODE_ID == "root"

DEFAULT_NODE_COLOR == "#4f46e5"

\* JavaScript truthiness of a string | null | undefined value.
Truthy(v) == v # null /\ v # undefined /\ v # ""

normalizeTextSize(value) ==
  IF value = "small" \/ value = "medium" \/ value = "large" THEN value ELSE "medium"

(***************************************************************************)
(* Sequence helpers (Array.prototype.map / filter / some / includes).      *)
(***************************************************************************)
Map(f(_), s) == [i \in 1..Len(s) |-> f(s[i])]

Ids(list) == [i \in 1..Len(list) |-> list[i].id]

IdSet(list) == {list[i].id : i \in 1..Len(list)}

Range(s) == {s[i] : i \in 1..Len(s)}

\* list[0]?.id
FirstId(list) == IF Len(list) > 0 THEN list[1].id ELSE undefined

\* { ...base, ...updates }
Spread(base, updates) ==
  [k \in (DOMAIN base) \cup (DOMAIN updates) |->
     IF k \in DOMAIN updates THEN updates[k] ELSE base[k]]

initialState ==
  [nodes |-> <<[id |-> ROOT_NODE_ID, parentId |-> null, text |-> "Root",
                x |-> 0, y |-> 0, color |-> DEFAULT_NODE_COLOR,
                textSize |-> "medium"]>>,
   annotations |-> <<>>,
   shapes |-> <<>>,
   selectedNodeIds |-> <<ROOT_NODE_ID>>,
   selectedAnnotationId |-> null,
   selectedShapeId |-> null,
   history |-> [past |-> <<>>, future |-> <<>>]]

(***************************************************************************)
(* loadPersistedState.  A parsed payload is a record; a key that is        *)
(* missing, or whose value has another type than the one the code tests    *)
(* for (typeof, Array.isArray), is a field the record does not have, and   *)
(* an array item that is not an object is the empty record.                *)
(***************************************************************************)
HasAll(value, keys) == keys \subseteq DOMAIN value

isMindMapNode(value) == HasAll(value, {"id", "parentId", "text", "x", "y", "color"})

isMindMapAnnotation(value) == HasAll(value, {"id", "text", "x", "y"})

isMindMapShape(value) ==
  /\ HasAll(value, {"id", "kind"})
  /\ CASE value.kind = "ring" ->
             /\ HasAll(value, {"x", "y", "radius", "thickness", "color"})
             /\ value.thickness > 0
        [] value.kind = "ellipse" ->
             /\ HasAll(value, {"x", "y", "radiusX", "radiusY", "thickness", "color"})
             /\ value.radiusX > 0 /\ value.radiusY > 0 /\ value.thickness > 0
        [] value.kind = "rectangle" ->
             /\ HasAll(value, {"x", "y", "width", "height", "thickness", "color"})
             /\ value.width > 0 /\ value.height > 0 /\ value.thickness > 0
        [] value.kind = "arrow" ->
             /\ HasAll(value, {"x", "y", "width", "height", "thickness", "color"})
             /\ value.width > 0 /\ value.height > 0 /\ value.thickness > 0
        [] value.kind = "line" ->
             /\ HasAll(value, {"x", "y", "length", "thickness", "color"})
             /\ value.length > 0 /\ value.thickness > 0
        [] OTHER -> FALSE

\* The validators write the normalized textSize, and the angle of an arrow or
\* a line (0 when it is not a number), into the item they accept.
withTextSize(value) ==
  Spread(value, [textSize |-> normalizeTextSize(IF "textSize" \in DOMAIN value
                                                 THEN value.textSize ELSE undefined)])

withAngle(value) ==
  IF value.kind \in {"arrow", "line"} /\ "angle" \notin DOMAIN value
  THEN Spread(value, [angle |-> 0])
  ELSE value

\* Array.isArray(parsed[key]) ? parsed[key] : []
listOf(parsed, key) == IF key \in DOMAIN parsed THEN parsed[key] ELSE <<>>

\* Mutant of loadPersistedState: the selection of the payload is taken as it
\* is stored, without looking the ids up in the loaded lists.
loadPersistedStateKeepsSelection(parsed) ==
  IF ~parsed.stored \/ "nodes" \notin DOMAIN parsed THEN initialState
  ELSE
    LET nodes == Map(withTextSize, SelectSeq(parsed.nodes, isMindMapNode))
        stored(key) == IF key \in DOMAIN parsed THEN parsed[key] ELSE null
    IN IF Len(nodes) = 0 THEN initialState
       ELSE [nodes |-> nodes,
             annotations |->
               Map(withTextSize,
                   SelectSeq(listOf(parsed, "annotations"), isMindMapAnnotation)),
             shapes |-> Map(withAngle, SelectSeq(listOf(parsed, "shapes"), isMindMapShape)),
             selectedNodeIds |-> listOf(parsed, "selectedNodeIds"),
             selectedAnnotationId |-> stored("selectedAnnotationId"),
             selectedShapeId |-> stored("selectedShapeId"),
             history |-> [past |-> <<>>, future |-> <<>>]]

loadPersistedState(parsed) ==
  IF ~parsed.stored \/ "nodes" \notin DOMAIN parsed THEN initialState
  ELSE
    LET nodes == Map(withTextSize, SelectSeq(parsed.nodes, isMindMapNode))
        annotations ==
          Map(withTextSize, SelectSeq(listOf(parsed, "annotations"), isMindMapAnnotation))
        shapes == Map(withAngle, SelectSeq(listOf(parsed, "shapes"), isMindMapShape))
        existingNodeIds == IdSet(nodes)
        filteredIds ==
          SelectSeq(listOf(parsed, "selectedNodeIds"), LAMBDA id : id \in existingNodeIds)
        selectedNodeIds ==
          IF Len(filteredIds) # 0 THEN filteredIds
          ELSE IF "selectedNodeId" \in DOMAIN parsed
                  /\ parsed.selectedNodeId # null
                  /\ parsed.selectedNodeId \in existingNodeIds
               THEN <<parsed.selectedNodeId>>
          ELSE IF "selectedNodeId" \in DOMAIN parsed /\ parsed.selectedNodeId = null
               THEN <<>>
          ELSE IF Truthy(FirstId(nodes)) THEN <<FirstId(nodes)>>
          ELSE <<>>
        selectedOf(key, list) ==
          IF key \in DOMAIN parsed /\ parsed[key] # null /\ parsed[key] \in IdSet(list)
          THEN parsed[key]
          ELSE IF Len(list) > 0 THEN list[1].id
          ELSE null
    IN IF Len(nodes) = 0 THEN initialState
       ELSE [nodes |-> nodes,
             annotations |-> annotations,
             shapes |-> shapes,
             selectedNodeIds |-> selectedNodeIds,
             selectedAnnotationId |-> selectedOf("selectedAnnotationId", annotations),
             selectedShapeId |-> selectedOf("selectedShapeId", shapes),
             history |-> [past |-> <<>>, future |-> <<>>]]

cloneSnapshot(s) ==
  [nodes |-> s.nodes, annotations |-> s.annotations, shapes |-> s.shapes]

\* Mutant of commitState: the snapshot is taken after the change, not before.
commitStateSnapshotAfter(s, upd) ==
  LET pick(k) == IF k \in DOMAIN upd THEN upd[k] ELSE s[k]
      after == [nodes |-> pick("nodes"), annotations |-> pick("annotations"),
                shapes |-> pick("shapes")]
  IN [nodes |-> pick("nodes"),
      annotations |-> pick("annotations"),
      shapes |-> pick("shapes"),
      selectedNodeIds |-> pick("selectedNodeIds"),
      selectedAnnotationId |-> pick("selectedAnnotationId"),
      selectedShapeId |-> pick("selectedShapeId"),
      history |-> [past |-> Append(s.history.past, after), future |-> <<>>]]

\* Mutant of commitState: the redo stack is kept.
commitStateKeepsFuture(s, upd) ==
  LET pick(k) == IF k \in DOMAIN upd THEN upd[k] ELSE s[k]
  IN [nodes |-> pick("nodes"),
      annotations |-> pick("annotations"),
      shapes |-> pick("shapes"),
      selectedNodeIds |-> pick("selectedNodeIds"),
      selectedAnnotationId |-> pick("selectedAnnotationId"),
      selectedShapeId |-> pick("selectedShapeId"),
      history |-> [past |-> Append(s.history.past, cloneSnapshot(s)),
                   future |-> s.history.future]]

\* Mutant of commitState: past keeps one snapshot only, the latest.
commitStateKeepsLatestOnly(s, upd) ==
  LET pick(k) == IF k \in DOMAIN upd THEN upd[k] ELSE s[k]
  IN [nodes |-> pick("nodes"),
      annotations |-> pick("annotations"),
      shapes |-> pick("shapes"),
      selectedNodeIds |-> pick("selectedNodeIds"),
      selectedAnnotationId |-> pick("selectedAnnotationId"),
      selectedShapeId |-> pick("selectedShapeId"),
      history |-> [past |-> <<cloneSnapshot(s)>>, future |-> <<>>]]

\* commitState(state, {...}): a field absent from upd defaults to the state's.
commitState(s, upd) ==
  LET pick(k) == IF k \in DOMAIN upd THEN upd[k] ELSE s[k]
  IN [nodes |-> pick("nodes"),
      annotations |-> pick("annotations"),
      shapes |-> pick("shapes"),
      selectedNodeIds |-> pick("selectedNodeIds"),
      selectedAnnotationId |-> pick("selectedAnnotationId"),
      selectedShapeId |-> pick("selectedShapeId"),
      history |-> [past |-> Append(s.history.past, cloneSnapshot(s)),
                   future |-> <<>>]]

RECURSIVE normalizeLoop(_, _, _, _)
normalizeLoop(nodeIds, existingIds, i, normalized) ==
  IF i > Len(nodeIds) THEN normalized
  ELSE IF nodeIds[i] \notin existingIds \/ nodeIds[i] \in Range(normalized)
       THEN normalizeLoop(nodeIds, existingIds, i + 1, normalized)
       ELSE normalizeLoop(nodeIds, existingIds, i + 1, Append(normalized, nodeIds[i]))

normalizeSelectedNodeIds(nodeIds, nodes) ==
  IF Len(nodeIds) = 0 THEN <<>>
  ELSE normalizeLoop(nodeIds, IdSet(nodes), 1, <<>>)

\* Mutant of childrenByParent: the index is keyed by the node's own id.
childrenByParentKeyedById(nodes, id) == SelectSeq(nodes, LAMBDA n : n.id = id)

\* childrenByParent.get(id): the nodes whose parentId is id, in list order.
childrenByParent(nodes, id) == SelectSeq(nodes, LAMBDA n : n.parentId = id)

\* nodeMap.get(id): the Map keeps the last node of each id.
nodeMapGet(nodes, id) ==
  LET hits == {i \in 1..Len(nodes) : nodes[i].id = id}
  IN nodes[CHOOSE i \in hits : \A j \in hits : j <= i]

RECURSIVE visit(_, _, _)
RECURSIVE visitChildren(_, _, _, _)
visit(nodes, id, idsToRemove) ==
  IF id \in idsToRemove THEN idsToRemove
  ELSE IF id \notin IdSet(nodes) THEN idsToRemove
  ELSE visitChildren(nodes, childrenByParent(nodes, id), 1, idsToRemove \cup {id})

visitChildren(nodes, children, i, idsToRemove) ==
  IF i > Len(children) THEN idsToRemove
  ELSE visitChildren(nodes, children, i + 1, visit(nodes, children[i].id, idsToRemove))

\* Mutant of visitTrace: an id without children is not looked up in
\* idsToRemove.
RECURSIVE visitTraceLeafUnguarded(_, _, _)
visitTraceLeafUnguarded(nodes, id, trace) ==
  LET RECURSIVE children(_, _)
      children(i, acc) ==
        IF i > Len(childrenByParent(nodes, id)) THEN acc
        ELSE children(i + 1,
                      visitTraceLeafUnguarded(nodes, childrenByParent(nodes, id)[i].id, acc))
  IN IF id \in Range(trace) /\ Len(childrenByParent(nodes, id)) > 0 THEN trace
     ELSE IF id \notin IdSet(nodes) THEN trace
     ELSE children(1, Append(trace, id))

\* visit(id) with the order of its idsToRemove.add(id) calls: trace holds the
\* ids in the order they were added, idsToRemove is Range(trace).
RECURSIVE visitTrace(_, _, _)
visitTrace(nodes, id, trace) ==
  LET RECURSIVE children(_, _)
      children(i, acc) ==
        IF i > Len(childrenByParent(nodes, id)) THEN acc
        ELSE children(i + 1, visitTrace(nodes, childrenByParent(nodes, id)[i].id, acc))
  IN IF id \in Range(trace) THEN trace
     ELSE IF id \notin IdSet(nodes) THEN trace
     ELSE children(1, Append(trace, id))

\* nodeIds.forEach of removeNodesAndDescendants: acc is [ids, roots].
RECURSIVE removalLoop(_, _, _, _)
removalLoop(nodes, nodeIds, i, acc) ==
  IF i > Len(nodeIds) THEN acc
  ELSE IF nodeIds[i] \in acc.ids \/ nodeIds[i] \notin IdSet(nodes)
       THEN removalLoop(nodes, nodeIds, i + 1, acc)
       ELSE removalLoop(nodes, nodeIds, i + 1,
              [ids |-> visit(nodes, nodeIds[i], acc.ids),
               roots |-> Append(acc.roots, nodeMapGet(nodes, nodeIds[i]))])

removeNodesAndDescendants(nodes, nodeIds) ==
  IF Len(nodeIds) = 0
  THEN [isNull |-> TRUE, nextNodes |-> <<>>, removedIds |-> {}, removalRoots |-> <<>>]
  ELSE LET acc == removalLoop(nodes, nodeIds, 1, [ids |-> {}, roots |-> <<>>])
       IN IF acc.ids = {}
          THEN [isNull |-> TRUE, nextNodes |-> <<>>, removedIds |-> {},
                removalRoots |-> <<>>]
          ELSE [isNull |-> FALSE,
                nextNodes |-> SelectSeq(nodes, LAMBDA n : n.id \notin acc.ids),
                removedIds |-> acc.ids,
                removalRoots |-> acc.roots]

\* removalRoots.map(parentId).find(...): the first qualifying parent id.
parentFallbackOf(removalRoots, removedIds, remainingNodeIds) ==
  LET ok(i) == /\ Truthy(removalRoots[i].parentId)
               /\ removalRoots[i].parentId \notin removedIds
               /\ removalRoots[i].parentId \in remainingNodeIds
      hits == {i \in 1..Len(removalRoots) : ok(i)}
  IN IF hits = {} THEN undefined
     ELSE removalRoots[CHOOSE i \in hits : \A j \in hits : i <= j].parentId

\* Mutant of deleteNodes: an emptied selection falls back to the first
\* remaining node without trying the parent of a removal root.
deleteNodesFirstRemaining(s, nodeIds) ==
  LET result == removeNodesAndDescendants(s.nodes, nodeIds)
  IN IF result.isNull THEN s
     ELSE LET remainingSelection ==
                SelectSeq(s.selectedNodeIds, LAMBDA id : id \notin result.removedIds)
              fallbackId == FirstId(result.nextNodes)
              selectedNodeIds ==
                IF Len(remainingSelection) # 0 THEN remainingSelection
                ELSE IF Truthy(fallbackId) THEN <<fallbackId>>
                ELSE <<>>
          IN commitState(s, [nodes |-> result.nextNodes,
                             selectedNodeIds |-> selectedNodeIds])

\* Mutant of deleteNodes: a deletion that removes nothing is committed too.
deleteNodesAlwaysCommits(s, nodeIds) ==
  LET result == removeNodesAndDescendants(s.nodes, nodeIds)
  IN IF result.isNull THEN commitState(s, [nodes |-> s.nodes])
     ELSE LET remainingSelection ==
                SelectSeq(s.selectedNodeIds, LAMBDA id : id \notin result.removedIds)
              remainingNodeIds == IdSet(result.nextNodes)
              parentFallback ==
                parentFallbackOf(result.removalRoots, result.removedIds, remainingNodeIds)
              fallbackId == FirstId(result.nextNodes)
              selectedNodeIds ==
                IF Len(remainingSelection) # 0 THEN remainingSelection
                ELSE IF Truthy(parentFallback) THEN <<parentFallback>>
                ELSE IF Truthy(fallbackId) THEN <<fallbackId>>
                ELSE <<>>
          IN commitState(s, [nodes |-> result.nextNodes,
                             selectedNodeIds |-> selectedNodeIds])

deleteNodes(s, nodeIds) ==
  LET result == removeNodesAndDescendants(s.nodes, nodeIds)
  IN IF result.isNull THEN s
     ELSE LET remainingSelection ==
                SelectSeq(s.selectedNodeIds, LAMBDA id : id \notin result.removedIds)
              remainingNodeIds == IdSet(result.nextNodes)
              parentFallback ==
                parentFallbackOf(result.removalRoots, result.removedIds, remainingNodeIds)
              fallbackId == FirstId(result.nextNodes)
              selectedNodeIds ==
                IF Len(remainingSelection) # 0 THEN remainingSelection
                ELSE IF Truthy(parentFallback) THEN <<parentFallback>>
                ELSE IF Truthy(fallbackId) THEN <<fallbackId>>
                ELSE <<>>
          IN commitState(s, [nodes |-> result.nextNodes,
                             selectedNodeIds |-> selectedNodeIds])

\* updateMap.has(id): some entry of the batch names id.
hasUpdateFor(updates, id) == \E i \in 1..Len(updates) : updates[i].nodeId = id

\* updateMap.get(id) of moveNodes: a later entry for an id replaces an earlier.
RECURSIVE lastUpdateFor(_, _, _)
lastUpdateFor(updates, id, i) ==
  IF i <= 1 \/ updates[i].nodeId = id THEN updates[i]
  ELSE lastUpdateFor(updates, id, i - 1)

\* Mutant of moveNodes: one commit per entry of the batch that moves a node.
RECURSIVE moveNodesPerNode(_, _)
moveNodesPerNode(s, updates) ==
  IF Len(updates) = 0 THEN s
  ELSE LET u == Head(updates)
           moved(n) == n.id = u.nodeId /\ ~(n.x = u.x /\ n.y = u.y)
           nextNodes == Map(LAMBDA n : IF moved(n) THEN [n EXCEPT !.x = u.x, !.y = u.y]
                                       ELSE n, s.nodes)
           didChange == \E i \in 1..Len(s.nodes) : moved(s.nodes[i])
       IN moveNodesPerNode(IF didChange THEN commitState(s, [nodes |-> nextNodes]) ELSE s,
                           Tail(updates))

\* Mutant of moveNodes: no comparison with the node's current coordinates.
moveNodesNoGuard(s, updates) ==
  IF Len(updates) = 0 THEN s
  ELSE LET position(n) == lastUpdateFor(updates, n.id, Len(updates))
           moved(n) == hasUpdateFor(updates, n.id)
           nextNodes == Map(LAMBDA n : IF moved(n)
                                       THEN [n EXCEPT !.x = position(n).x,
                                                      !.y = position(n).y]
                                       ELSE n, s.nodes)
           didChange == \E i \in 1..Len(s.nodes) : moved(s.nodes[i])
       IN IF ~didChange THEN s ELSE commitState(s, [nodes |-> nextNodes])

moveNodes(s, updates) ==
  IF Len(updates) = 0 THEN s
  ELSE LET position(n) == lastUpdateFor(updates, n.id, Len(updates))
           moved(n) == /\ hasUpdateFor(updates, n.id)
                       /\ ~(n.x = position(n).x /\ n.y = position(n).y)
           nextNodes == Map(LAMBDA n : IF moved(n)
                                       THEN [n EXCEPT !.x = position(n).x,
                                                      !.y = position(n).y]
                                       ELSE n, s.nodes)
           didChange == \E i \in 1..Len(s.nodes) : moved(s.nodes[i])
       IN IF ~didChange THEN s ELSE commitState(s, [nodes |-> nextNodes])

\* The sanitized partial update of one entry of updateNodes.
sanitizeUpdates(partialUpdates) ==
  [k \in DOMAIN partialUpdates |->
     IF k = "textSize" THEN normalizeTextSize(partialUpdates[k]) ELSE partialUpdates[k]]

\* updateMap.get(id) of updateNodes: the entries for an id merged in order.
RECURSIVE mergedUpdatesFor(_, _, _, _)
mergedUpdatesFor(updates, id, i, acc) ==
  IF i > Len(updates) THEN acc
  ELSE IF updates[i].nodeId # id THEN mergedUpdatesFor(updates, id, i + 1, acc)
  ELSE mergedUpdatesFor(updates, id, i + 1,
         Spread(acc, sanitizeUpdates(updates[i].updates)))

updateNodes(s, updates) ==
  IF Len(updates) = 0 THEN s
  ELSE LET nodeUpdates(n) == mergedUpdatesFor(updates, n.id, 1, <<>>)
           merged(n) == [Spread(n, nodeUpdates(n)) EXCEPT !.id = n.id]
           hasDifference(n) ==
             /\ hasUpdateFor(updates, n.id)
             /\ \E key \in DOMAIN nodeUpdates(n) : merged(n)[key] # n[key]
           nextNodes == Map(LAMBDA n : IF hasDifference(n) THEN merged(n) ELSE n, s.nodes)
           didChange == \E i \in 1..Len(s.nodes) : hasDifference(s.nodes[i])
       IN IF ~didChange THEN s ELSE commitState(s, [nodes |-> nextNodes])

(***************************************************************************)
(* The cases of mindMapReducer, one operator per action type.              *)
(***************************************************************************)
\* action.nodes.forEach of ADD_NODES: the nodes whose id is not yet taken.
RECURSIVE addNodesLoop(_, _, _, _)
addNodesLoop(nodes, i, existingIds, newNodes) ==
  IF i > Len(nodes) THEN newNodes
  ELSE IF nodes[i].id \in existingIds
       THEN addNodesLoop(nodes, i + 1, existingIds, newNodes)
       ELSE addNodesLoop(nodes, i + 1, existingIds \cup {nodes[i].id},
                         Append(newNodes, nodes[i]))

ReduceAddNodes(s, action) ==
  LET newNodes == addNodesLoop(action.nodes, 1, IdSet(s.nodes), <<>>)
      nextNodes == s.nodes \o newNodes
      desiredSelection == IF "selectedNodeIds" \in DOMAIN action
                          THEN action.selectedNodeIds ELSE Ids(newNodes)
      selectedNodeIds == normalizeSelectedNodeIds(desiredSelection, nextNodes)
      hasSelection == Len(selectedNodeIds) > 0
  IN IF Len(newNodes) = 0 THEN s
     ELSE commitState(s,
            [nodes |-> nextNodes,
             selectedNodeIds |-> selectedNodeIds,
             selectedAnnotationId |-> IF hasSelection THEN null ELSE s.selectedAnnotationId,
             selectedShapeId |-> IF hasSelection THEN null ELSE s.selectedShapeId])

ReduceAddNode(s, action) ==
  commitState(s, [nodes |-> Append(s.nodes, action.node),
                  selectedNodeIds |-> <<action.node.id>>,
                  selectedAnnotationId |-> null,
                  selectedShapeId |-> null])

\* { ...entity, ...updates, id: entity.id } for the entity named id.
updateById(list, id, updates) ==
  Map(LAMBDA e : IF e.id = id THEN [Spread(e, updates) EXCEPT !.id = e.id] ELSE e, list)

ReduceUpdateNode(s, action) ==
  commitState(s, [nodes |-> updateById(s.nodes, action.nodeId, action.updates)])

ReduceUpdateNodes(s, action) == updateNodes(s, action.updates)

ReduceDeleteNode(s, action) == deleteNodes(s, <<action.nodeId>>)

ReduceDeleteNodes(s, action) == deleteNodes(s, action.nodeIds)

ReduceMoveNode(s, action) ==
  moveNodes(s, <<[nodeId |-> action.nodeId, x |-> action.x, y |-> action.y]>>)

ReduceMoveNodes(s, action) == moveNodes(s, action.updates)

resetRoot ==
  [id |-> ROOT_NODE_ID, parentId |-> null, text |-> "Root", x |-> 0, y |-> 0,
   color |-> DEFAULT_NODE_COLOR, textSize |-> "medium"]

\* Mutant of ReduceClearAll: the reset starts a fresh history instead of
\* committing.
ReduceClearAllFreshHistory(s) ==
  IF s.nodes = <<resetRoot>> /\ Len(s.annotations) = 0 /\ Len(s.shapes) = 0 THEN s
  ELSE [nodes |-> <<resetRoot>>,
        annotations |-> <<>>,
        shapes |-> <<>>,
        selectedNodeIds |-> <<ROOT_NODE_ID>>,
        selectedAnnotationId |-> null,
        selectedShapeId |-> null,
        history |-> [past |-> <<>>, future |-> <<>>]]

\* Mutant of ReduceClearAll: the guard looks at the nodes only, and the reset
\* leaves the annotations and their selection in place.
ReduceClearAllKeepsAnnotations(s) ==
  IF s.nodes = <<resetRoot>> /\ Len(s.shapes) = 0 THEN s
  ELSE commitState(s, [nodes |-> <<resetRoot>>,
                       shapes |-> <<>>,
                       selectedNodeIds |-> <<ROOT_NODE_ID>>,
                       selectedShapeId |-> null])

ReduceClearAll(s) ==
  LET hasExtraNodes ==
        \/ Len(s.nodes) # 1
        \/ s.nodes[1].id # ROOT_NODE_ID
        \/ s.nodes[1].parentId # null
        \/ s.nodes[1].text # "Root"
        \/ s.nodes[1].x # 0
        \/ s.nodes[1].y # 0
        \/ s.nodes[1].color # DEFAULT_NODE_COLOR
        \/ s.nodes[1].textSize # "medium"
      hasShapes == Len(s.shapes) > 0
  IN IF ~hasExtraNodes /\ Len(s.annotations) = 0 /\ ~hasShapes THEN s
     ELSE commitState(s, [nodes |-> <<resetRoot>>,
                          annotations |-> <<>>,
                          shapes |-> <<>>,
                          selectedNodeIds |-> <<ROOT_NODE_ID>>,
                          selectedAnnotationId |-> null,
                          selectedShapeId |-> null])

\* Mutant of ReduceAddAnnotation: the node and shape selections are kept.
ReduceAddAnnotationKeepsSelection(s, action) ==
  commitState(s, [annotations |-> Append(s.annotations, action.annotation),
                  selectedAnnotationId |-> action.annotation.id])

ReduceAddAnnotation(s, action) ==
  commitState(s, [annotations |-> Append(s.annotations, action.annotation),
                  selectedAnnotationId |-> action.annotation.id,
                  selectedNodeIds |-> <<>>,
                  selectedShapeId |-> null])

ReduceUpdateAnnotation(s, action) ==
  commitState(s, [annotations |->
                    updateById(s.annotations, action.annotationId, action.updates)])

\* { ...entity, x, y } for the entity named id.
moveById(list, id, x, y) ==
  Map(LAMBDA e : IF e.id = id THEN [e EXCEPT !.x = x, !.y = y] ELSE e, list)

ReduceMoveAnnotation(s, action) ==
  commitState(s, [annotations |->
                    moveById(s.annotations, action.annotationId, action.x, action.y)])

\* Mutant of ReduceDeleteAnnotation: the selection is not cleared.
ReduceDeleteAnnotationKeepsSelection(s, action) ==
  IF action.annotationId \notin IdSet(s.annotations) THEN s
  ELSE commitState(s,
         [annotations |-> SelectSeq(s.annotations, LAMBDA a : a.id # action.annotationId)])

ReduceDeleteAnnotation(s, action) ==
  IF action.annotationId \notin IdSet(s.annotations) THEN s
  ELSE commitState(s,
         [annotations |-> SelectSeq(s.annotations, LAMBDA a : a.id # action.annotationId),
          selectedAnnotationId |->
            IF Truthy(s.selectedAnnotationId) /\ s.selectedAnnotationId = action.annotationId
            THEN null ELSE s.selectedAnnotationId])

ReduceAddShape(s, action) ==
  commitState(s, [shapes |-> Append(s.shapes, action.shape),
                  selectedShapeId |-> action.shape.id,
                  selectedNodeIds |-> <<>>,
                  selectedAnnotationId |-> null])

\* Every kind's branch spreads the updates and restores id and kind.
updateShape(shape, updates) ==
  IF shape.kind = "ring"
  THEN [Spread(shape, updates) EXCEPT !.id = shape.id, !.kind = "ring"]
  ELSE IF shape.kind = "ellipse"
  THEN [Spread(shape, updates) EXCEPT !.id = shape.id, !.kind = "ellipse"]
  ELSE IF shape.kind = "rectangle"
  THEN [Spread(shape, updates) EXCEPT !.id = shape.id, !.kind = "rectangle"]
  ELSE IF shape.kind = "arrow"
  THEN [Spread(shape, updates) EXCEPT !.id = shape.id, !.kind = "arrow"]
  ELSE [Spread(shape, updates) EXCEPT !.id = shape.id, !.kind = "line"]

ReduceUpdateShape(s, action) ==
  commitState(s, [shapes |->
    Map(LAMBDA sh : IF sh.id # action.shapeId THEN sh ELSE updateShape(sh, action.updates),
        s.shapes)])

ReduceMoveShape(s, action) ==
  commitState(s, [shapes |-> moveById(s.shapes, action.shapeId, action.x, action.y)])

ReduceDeleteShape(s, action) ==
  IF action.shapeId \notin IdSet(s.shapes) THEN s
  ELSE commitState(s,
         [shapes |-> SelectSeq(s.shapes, LAMBDA sh : sh.id # action.shapeId),
          selectedShapeId |->
            IF Truthy(s.selectedShapeId) /\ s.selectedShapeId = action.shapeId
            THEN null ELSE s.selectedShapeId])

\* The selection of UNDO / REDO, re-resolved against the restored snapshot.
resolveNodeSelection(selected, snapshot) ==
  LET normalizedSelection == normalizeSelectedNodeIds(selected, snapshot.nodes)
      fallbackNodeId == FirstId(snapshot.nodes)
  IN IF Len(normalizedSelection) > 0 THEN normalizedSelection
     ELSE IF Truthy(fallbackNodeId) THEN <<fallbackNodeId>>
     ELSE <<>>

\* selected && list.some(e => e.id === selected) ? selected : list[0]?.id ?? null
resolveSingleSelection(selected, list) ==
  IF Truthy(selected) /\ selected \in IdSet(list) THEN selected
  ELSE IF Len(list) > 0 THEN list[1].id
  ELSE null

\* The state UNDO and REDO return: the snapshot's document, the selections of s
\* re-resolved against it, and the given stacks.
restoreSnapshot(s, snapshot, newPast, newFuture) ==
  [nodes |-> snapshot.nodes,
   annotations |-> snapshot.annotations,
   shapes |-> snapshot.shapes,
   selectedNodeIds |-> resolveNodeSelection(s.selectedNodeIds, snapshot),
   selectedAnnotationId |->
     resolveSingleSelection(s.selectedAnnotationId, snapshot.annotations),
   selectedShapeId |-> resolveSingleSelection(s.selectedShapeId, snapshot.shapes),
   history |-> [past |-> newPast, future |-> newFuture]]

\* Mutant of ReduceUndo: the restored snapshot, not the current document, is
\* put on the redo stack.
ReduceUndoWrongFuture(s) ==
  IF Len(s.history.past) = 0 THEN s
  ELSE LET previousSnapshot == s.history.past[Len(s.history.past)]
       IN restoreSnapshot(s, previousSnapshot,
                          SubSeq(s.history.past, 1, Len(s.history.past) - 1),
                          <<previousSnapshot>> \o s.history.future)

\* Mutant of ReduceUndo: no early return; with an empty past the current
\* document is restored onto itself and the selections are re-resolved.
ReduceUndoNoGuard(s) ==
  IF Len(s.history.past) = 0
  THEN restoreSnapshot(s, cloneSnapshot(s), s.history.past, s.history.future)
  ELSE restoreSnapshot(s, s.history.past[Len(s.history.past)],
                       SubSeq(s.history.past, 1, Len(s.history.past) - 1),
                       <<cloneSnapshot(s)>> \o s.history.future)

ReduceUndo(s) ==
  IF Len(s.history.past) = 0 THEN s
  ELSE LET previousSnapshot == s.history.past[Len(s.history.past)]
           past == SubSeq(s.history.past, 1, Len(s.history.past) - 1)
           future == <<cloneSnapshot(s)>> \o s.history.future
       IN restoreSnapshot(s, previousSnapshot, past, future)

\* Mutant of ReduceRedo: the document the redo leaves is not pushed onto past.
ReduceRedoDropsCurrent(s) ==
  IF Len(s.history.future) = 0 THEN s
  ELSE restoreSnapshot(s, Head(s.history.future), s.history.past, Tail(s.history.future))

ReduceRedo(s) ==
  IF Len(s.history.future) = 0 THEN s
  ELSE LET nextSnapshot == Head(s.history.future)
           restFuture == Tail(s.history.future)
           past == Append(s.history.past, cloneSnapshot(s))
       IN restoreSnapshot(s, nextSnapshot, past, restFuture)

\* Mutant of ReduceImport: the import keeps the history stacks.
ReduceImportKeepsHistory(s, action) ==
  LET importedNodes == action.nodes
      importedAnnotations ==
        IF "annotations" \in DOMAIN action THEN action.annotations ELSE <<>>
      importedShapes == IF "shapes" \in DOMAIN action THEN action.shapes ELSE <<>>
  IN [nodes |-> importedNodes,
      annotations |-> importedAnnotations,
      shapes |-> importedShapes,
      selectedNodeIds |->
        IF Len(importedNodes) > 0 THEN <<importedNodes[1].id>> ELSE <<>>,
      selectedAnnotationId |->
        IF Len(importedAnnotations) > 0 THEN importedAnnotations[1].id ELSE null,
      selectedShapeId |-> IF Len(importedShapes) > 0 THEN importedShapes[1].id ELSE null,
      history |-> s.history]

ReduceImport(s, action) ==
  LET importedNodes == action.nodes
      importedAnnotations ==
        IF "annotations" \in DOMAIN action THEN action.annotations ELSE <<>>
      importedShapes == IF "shapes" \in DOMAIN action THEN action.shapes ELSE <<>>
  IN [nodes |-> importedNodes,
      annotations |-> importedAnnotations,
      shapes |-> importedShapes,
      selectedNodeIds |->
        IF Len(importedNodes) > 0 THEN <<importedNodes[1].id>> ELSE <<>>,
      selectedAnnotationId |->
        IF Len(importedAnnotations) > 0 THEN importedAnnotations[1].id ELSE null,
      selectedShapeId |-> IF Len(importedShapes) > 0 THEN importedShapes[1].id ELSE null,
      history |-> [past |-> <<>>, future |-> <<>>]]

\* The guard shared by SET_SELECTED_NODES and TOGGLE_NODE_SELECTION, and the
\* state they return.
withNodeSelection(s, selectedNodeIds) ==
  IF selectedNodeIds = s.selectedNodeIds THEN s
  ELSE LET hasSelection == Len(selectedNodeIds) > 0
       IN [s EXCEPT !.selectedNodeIds = selectedNodeIds,
                    !.selectedAnnotationId = IF hasSelection THEN null ELSE @,
                    !.selectedShapeId = IF hasSelection THEN null ELSE @]

ReduceSetSelectedNodes(s, action) ==
  withNodeSelection(s, normalizeSelectedNodeIds(action.nodeIds, s.nodes))

\* Mutant of ReduceToggleNodeSelection: a newly selected id is put first.
ReduceToggleNodeSelectionPrepends(s, action) ==
  IF action.nodeId \notin IdSet(s.nodes) THEN s
  ELSE LET isSelected == action.nodeId \in Range(s.selectedNodeIds)
           nextSelection ==
             IF isSelected
             THEN SelectSeq(s.selectedNodeIds, LAMBDA id : id # action.nodeId)
             ELSE <<action.nodeId>> \o s.selectedNodeIds
       IN withNodeSelection(s, normalizeSelectedNodeIds(nextSelection, s.nodes))

ReduceToggleNodeSelection(s, action) ==
  IF action.nodeId \notin IdSet(s.nodes) THEN s
  ELSE LET isSelected == action.nodeId \in Range(s.selectedNodeIds)
           nextSelection ==
             IF isSelected
             THEN SelectSeq(s.selectedNodeIds, LAMBDA id : id # action.nodeId)
             ELSE Append(s.selectedNodeIds, action.nodeId)
       IN withNodeSelection(s, normalizeSelectedNodeIds(nextSelection, s.nodes))

ReduceClearSelectedNodes(s) ==
  IF Len(s.selectedNodeIds) = 0 THEN s ELSE [s EXCEPT !.selectedNodeIds = <<>>]

ReduceSelectAnnotation(s, action) ==
  IF Truthy(action.annotationId) /\ action.annotationId \notin IdSet(s.annotations) THEN s
  ELSE [s EXCEPT !.selectedAnnotationId = action.annotationId,
                 !.selectedNodeIds = IF Truthy(action.annotationId) THEN <<>> ELSE @,
                 !.selectedShapeId = IF Truthy(action.annotationId) THEN null ELSE @]

\* Mutant of ReduceSelectShape: the selection is committed like an edit.
ReduceSelectShapeCommits(s, action) ==
  IF Truthy(action.shapeId) /\ action.shapeId \notin IdSet(s.shapes) THEN s
  ELSE commitState(s, [selectedShapeId |-> action.shapeId,
                       selectedNodeIds |-> IF Truthy(action.shapeId) THEN <<>>
                                           ELSE s.selectedNodeIds,
                       selectedAnnotationId |-> IF Truthy(action.shapeId) THEN null
                                                ELSE s.selectedAnnotationId])

ReduceSelectShape(s, action) ==
  IF Truthy(action.shapeId) /\ action.shapeId \notin IdSet(s.shapes) THEN s
  ELSE [s EXCEPT !.selectedShapeId = action.shapeId,
                 !.selectedNodeIds = IF Truthy(action.shapeId) THEN <<>> ELSE @,
                 !.selectedAnnotationId = IF Truthy(action.shapeId) THEN null ELSE @]

mindMapReducer(s, action) ==
  CASE action.type = "ADD_NODES" -> ReduceAddNodes(s, action)
    [] action.type = "ADD_NODE" -> ReduceAddNode(s, action)
    [] action.type = "UPDATE_NODE" -> ReduceUpdateNode(s, action)
    [] action.type = "UPDATE_NODES" -> ReduceUpdateNodes(s, action)
    [] action.type = "DELETE_NODE" -> ReduceDeleteNode(s, action)
    [] action.type = "DELETE_NODES" -> ReduceDeleteNodes(s, action)
    [] action.type = "MOVE_NODE" -> ReduceMoveNode(s, action)
    [] action.type = "MOVE_NODES" -> ReduceMoveNodes(s, action)
    [] action.type = "CLEAR_ALL" -> ReduceClearAll(s)
    [] action.type = "ADD_ANNOTATION" -> ReduceAddAnnotation(s, action)
    [] action.type = "UPDATE_ANNOTATION" -> ReduceUpdateAnnotation(s, action)
    [] action.type = "MOVE_ANNOTATION" -> ReduceMoveAnnotation(s, action)
    [] action.type = "DELETE_ANNOTATION" -> ReduceDeleteAnnotation(s, action)
    [] action.type = "ADD_SHAPE" -> ReduceAddShape(s, action)
    [] action.type = "UPDATE_SHAPE" -> ReduceUpdateShape(s, action)
    [] action.type = "MOVE_SHAPE" -> ReduceMoveShape(s, action)
    [] action.type = "DELETE_SHAPE" -> ReduceDeleteShape(s, action)
    [] action.type = "UNDO" -> ReduceUndo(s)
    [] action.type = "REDO" -> ReduceRedo(s)
    [] action.type = "IMPORT" -> ReduceImport(s, action)
    [] action.type = "EXPORT" -> s
    [] action.type = "SET_SELECTED_NODES" -> ReduceSetSelectedNodes(s, action)
    [] action.type = "TOGGLE_NODE_SELECTION" -> ReduceToggleNodeSelection(s, action)
    [] action.type = "CLEAR_SELECTED_NODES" -> ReduceClearSelectedNodes(s)
    [] action.type = "SELECT_ANNOTATION" -> ReduceSelectAnnotation(s, action)
    [] action.type = "SELECT_SHAPE" -> ReduceSelectShape(s, action)
    [] OTHER -> s

(***************************************************************************)
(* The inputs the actions draw from.                                       *)
(***************************************************************************)
NodeIds == {"root", "a", "b"}

Node(id, parentId) ==
  [id |-> id, parentId |-> parentId, text |-> "Idea", x |-> 0, y |-> 0,
   color |-> DEFAULT_NODE_COLOR, textSize |-> "medium"]

Annotation(id) == [id |-> id, text |-> "Note", x |-> 0, y |-> 0, textSize |-> "medium"]

Ring(id) ==
  [id |-> id, kind |-> "ring", x |-> 0, y |-> 0, radius |-> 120 * Unit,
   thickness |-> 24 * Unit, color |-> DEFAULT_NODE_COLOR]

Line(id) ==
  [id |-> id, kind |-> "line", x |-> 0, y |-> 0, length |-> 320 * Unit,
   thickness |-> 12 * Unit, angle |-> 0, color |-> DEFAULT_NODE_COLOR]

AddNodesInputs ==
  { [type |-> "ADD_NODES", nodes |-> <<Node("a", "root"), Node("b", "a")>>],
    [type |-> "ADD_NODES", nodes |-> <<Node("a", "root"), Node("b", "a")>>,
     selectedNodeIds |-> <<"zz", "a", "a">>],
    [type |-> "ADD_NODES", nodes |-> <<Node("root", null)>>] }

AddNodeInputs ==
  { [type |-> "ADD_NODE", node |-> n] :
      n \in {Node("a", "root"), Node("b", "a"), Node("a", "b")} }

UpdateNodeInputs ==
  { [type |-> "UPDATE_NODE", nodeId |-> "root", updates |-> [text |-> "Idea"]],
    [type |-> "UPDATE_NODE", nodeId |-> "a", updates |-> [text |-> "Idea"]],
    [type |-> "UPDATE_NODE", nodeId |-> "a", updates |-> [parentId |-> "b"]],
    [type |-> "UPDATE_NODE", nodeId |-> "root", updates |-> [textSize |-> "huge"]] }

UpdateNodesInputs ==
  { [type |-> "UPDATE_NODES", updates |-> u] :
      u \in { <<[nodeId |-> "a", updates |-> [text |-> "Plan"]],
                [nodeId |-> "root", updates |-> [text |-> "Plan", textSize |-> "huge"]]>>,
              <<[nodeId |-> "b", updates |-> [text |-> "Idea"]]>>,
              <<>> } }

DeleteNodeInputs == { [type |-> "DELETE_NODE", nodeId |-> id] : id \in NodeIds }

DeleteNodesInputs ==
  { [type |-> "DELETE_NODES", nodeIds |-> ids] :
      ids \in { <<>>, <<"a", "b">>, <<"b", "root">> } }

MoveNodeInputs ==
  { [type |-> "MOVE_NODE", nodeId |-> id, x |-> 0, y |-> y] :
      id \in {"root", "a"}, y \in {0, 1} }

MoveNodesInputs ==
  { [type |-> "MOVE_NODES", updates |-> u] :
      u \in { <<[nodeId |-> "root", x |-> 1, y |-> 1], [nodeId |-> "a", x |-> 1, y |-> 0]>>,
              <<[nodeId |-> "a", x |-> 0, y |-> 0], [nodeId |-> "b", x |-> 0, y |-> 0]>> } }

SetSelectedNodesInputs ==
  { [type |-> "SET_SELECTED_NODES", nodeIds |-> ids] :
      ids \in { <<>>, <<"a", "root">>, <<"b", "b", "zz">> } }

ToggleNodeSelectionInputs ==
  { [type |-> "TOGGLE_NODE_SELECTION", nodeId |-> id] : id \in {"root", "a"} }

AddAnnotationInputs ==
  { [type |-> "ADD_ANNOTATION", annotation |-> Annotation(id)] : id \in {"note1", "note2"} }

UpdateAnnotationInputs ==
  { [type |-> "UPDATE_ANNOTATION", annotationId |-> "note1", updates |-> u] :
      u \in { [text |-> "Note"], [text |-> "Memo"] } }

MoveAnnotationInputs ==
  { [type |-> "MOVE_ANNOTATION", annotationId |-> "note1", x |-> x, y |-> 0] : x \in {0, 1} }

DeleteAnnotationInputs ==
  { [type |-> "DELETE_ANNOTATION", annotationId |-> id] : id \in {"note1", "note2"} }

SelectAnnotationInputs ==
  { [type |-> "SELECT_ANNOTATION", annotationId |-> id] : id \in {null, "note1"} }

AddShapeInputs ==
  { [type |-> "ADD_SHAPE", shape |-> sh] :
      sh \in {Ring("ring1"), Line("line1"), [Ring("ring2") EXCEPT !.radius = 10 * Unit]} }

UpdateShapeInputs ==
  { [type |-> "UPDATE_SHAPE", shapeId |-> "ring1", updates |-> u] :
      u \in { [thickness |-> 24 * Unit], [radius |-> 96 * Unit, thickness |-> 24 * Unit] } }

MoveShapeInputs ==
  { [type |-> "MOVE_SHAPE", shapeId |-> "ring1", x |-> x, y |-> 0] : x \in {0, 1} }

DeleteShapeInputs ==
  { [type |-> "DELETE_SHAPE", shapeId |-> id] : id \in {"ring1", "line1"} }

SelectShapeInputs == { [type |-> "SELECT_SHAPE", shapeId |-> id] : id \in {null, "ring1"} }

ImportInputs ==
  { [type |-> "IMPORT", nodes |-> <<Node("b", null)>>],
    [type |-> "IMPORT", nodes |-> <<Node("root", null), Node("b", "root")>>,
     annotations |-> <<Annotation("note2"), Annotation("note1")>>,
     shapes |-> <<Line("line1"), Ring("ring1")>>] }

\* What localStorage may hold at startup: nothing; a document with an
\* annotation and a selection that names an annotation no longer there; a
\* document with a malformed node, an invalid ring and stale selection ids.
PersistedPayloads ==
  { [stored |-> FALSE],
    [stored |-> TRUE,
     nodes |-> <<resetRoot, Node("a", "root")>>,
     annotations |-> <<Annotation("note1")>>,
     selectedNodeIds |-> <<>>,
     selectedNodeId |-> null,
     selectedAnnotationId |-> "gone",
     selectedShapeId |-> null],
    [stored |-> TRUE,
     nodes |-> <<[id |-> "a", text |-> "Idea"],
                 [id |-> "b", parentId |-> null, text |-> "Idea", x |-> 1, y |-> 0,
                  color |-> DEFAULT_NODE_COLOR, textSize |-> "huge"]>>,
     shapes |-> <<[id |-> "ring1", kind |-> "ring", x |-> 0, y |-> 0, radius |-> 120 * Unit,
                   thickness |-> 0, color |-> DEFAULT_NODE_COLOR]>>,
     selectedNodeIds |-> <<"zz">>,
     selectedAnnotationId |-> null,
     selectedShapeId |-> "ring1"] }

(***************************************************************************)
(* Numbers of the view transform.  The scale and the offsets of the view   *)
(* are exact fractions [num, den] in lowest terms with den > 0: products   *)
(* and quotients by the scale are computed without rounding.               *)
(***************************************************************************)
RECURSIVE Gcd(_, _)
Gcd(a, b) == IF b = 0 THEN a ELSE Gcd(b, a % b)

Ratio(n, d) ==
  LET an == IF n < 0 THEN 0 - n ELSE n
      ad == IF d < 0 THEN 0 - d ELSE d
      g == Gcd(an, ad)
      sign == IF d < 0 THEN 0 - 1 ELSE 1
  IN [num |-> (sign * n) \div g, den |-> ad \div g]

Whole(n) == [num |-> n, den |-> 1]

\* a + b over the least common denominator.
RAdd(a, b) ==
  LET g == Gcd(a.den, b.den)
  IN Ratio(a.num * (b.den \div g) + b.num * (a.den \div g), (a.den \div g) * b.den)

RNeg(a) == [num |-> 0 - a.num, den |-> a.den]

RSub(a, b) == RAdd(a, RNeg(b))

\* a * b, cancelling crosswise before multiplying.
RMul(a, b) ==
  LET l == Ratio(a.num, b.den)
      r == Ratio(b.num, a.den)
  IN Ratio(l.num * r.num, l.den * r.den)

RDiv(a, b) == RMul(a, Ratio(b.den, b.num))

\* an/ad < bn/bd for ad, bd > 0, by whole parts and then by the reciprocals
\* of the fractional parts, so that no product is formed.
RECURSIVE FracLess(_, _, _, _)
FracLess(an, ad, bn, bd) ==
  LET qa == an \div ad
      qb == bn \div bd
      ra == an % ad
      rb == bn % bd
  IN IF qa # qb THEN qa < qb
     ELSE IF rb = 0 THEN FALSE
     ELSE IF ra = 0 THEN TRUE
     ELSE FracLess(bd, rb, ad, ra)

RLess(a, b) == FracLess(a.num, a.den, b.num, b.den)

RMin(a, b) == IF RLess(b, a) THEN b ELSE a

RMax(a, b) == IF RLess(a, b) THEN b ELSE a

\* A number of pixels in hundredths of a pixel, rounded to the nearest one.
Hundredths(a) ==
  (a.num \div a.den) * Unit + (2 * Unit * (a.num % a.den) + a.den) \div (2 * a.den)

\* A length in hundredths of a pixel as a number of pixels.
Pixels(hundredths) == Ratio(hundredths, Unit)

\* interactionRef.current === null
NoInteraction == [mode |-> "none"]

\* The state of the canvas after construction (useRef / useState initial values).
InitCanvas ==
  /\ interactionRef = NoInteraction
  /\ pressed = {}
  /\ readers = <<>>
  /\ viewTransform = [scale |-> Whole(1), offsetX |-> Whole(0), offsetY |-> Whole(0)]
  /\ sizeRef = [width |-> 0, height |-> 0]
  /\ hasAutoCenteredRef = FALSE

(***************************************************************************)
(* The state machine: one action per action type of the reducer.  steps    *)
(* counts the dispatched actions; the model stops at MaxSteps.             *)
(***************************************************************************)
past == state.history.past

future == state.history.future

Init ==
  /\ state \in {loadPersistedState(parsed) : parsed \in PersistedPayloads}
  /\ lastAction = [type |-> "INIT"]
  /\ steps = 0
  /\ isLocked = FALSE
  /\ InitCanvas

AddNodes ==
  \E action \in AddNodesInputs :
    /\ steps < MaxSteps
    /\ state' = mindMapReducer(state, action)
    /\ lastAction' = action
    /\ steps' = steps + 1
    /\ UNCHANGED <<isLocked, canvasVars>>

AddNode ==
  \E action \in AddNodeInputs :
    /\ steps < MaxSteps
    /\ state' = mindMapReducer(state, action)
    /\ lastAction' = action
    /\ steps' = steps + 1
    /\ UNCHANGED <<isLocked, canvasVars>>

UpdateNode ==
  \E action \in UpdateNodeInputs :
    /\ steps < MaxSteps
    /\ state' = mindMapReducer(state, action)
    /\ lastAction' = action
    /\ steps' = steps + 1
    /\ UNCHANGED <<isLocked, canvasVars>>

UpdateNodes ==
  \E action \in UpdateNodesInputs :
    /\ steps < MaxSteps
    /\ state' = mindMapReducer(state, action)
    /\ lastAction' = action
    /\ steps' = steps + 1
    /\ UNCHANGED <<isLocked, canvasVars>>

DeleteNode ==
  \E action \in DeleteNodeInputs :
    /\ steps < MaxSteps
    /\ state' = mindMapReducer(state, action)
    /\ lastAction' = action
    /\ steps' = steps + 1
    /\ UNCHANGED <<isLocked, canvasVars>>

DeleteNodes ==
  \E action \in DeleteNodesInputs :
    /\ steps < MaxSteps
    /\ state' = mindMapReducer(state, action)
    /\ lastAction' = action
    /\ steps' = steps + 1
    /\ UNCHANGED <<isLocked, canvasVars>>

MoveNode ==
  \E action \in MoveNodeInputs :
    /\ steps < MaxSteps
    /\ state' = mindMapReducer(state, action)
    /\ lastAction' = action
    /\ steps' = steps + 1
    /\ UNCHANGED <<isLocked, canvasVars>>

MoveNodes ==
  \E action \in MoveNodesInputs :
    /\ steps < MaxSteps
    /\ state' = mindMapReducer(state, action)
    /\ lastAction' = action
    /\ steps' = steps + 1
    /\ UNCHANGED <<isLocked, canvasVars>>

SetSelectedNodes ==
  \E action \in SetSelectedNodesInputs :
    /\ steps < MaxSteps
    /\ state' = mindMapReducer(state, action)
    /\ lastAction' = action
    /\ steps' = steps + 1
    /\ UNCHANGED <<isLocked, canvasVars>>

ToggleNodeSelection ==
  \E action \in ToggleNodeSelectionInputs :
    /\ steps < MaxSteps
    /\ state' = mindMapReducer(state, action)
    /\ lastAction' = action
    /\ steps' = steps + 1
    /\ UNCHANGED <<isLocked, canvasVars>>

ClearSelectedNodes ==
  /\ steps < MaxSteps
  /\ state' = mindMapReducer(state, [type |-> "CLEAR_SELECTED_NODES"])
  /\ lastAction' = [type |-> "CLEAR_SELECTED_NODES"]
  /\ steps' = steps + 1
  /\ UNCHANGED <<isLocked, canvasVars>>

ClearAll ==
  /\ steps < MaxSteps
  /\ state' = mindMapReducer(state, [type |-> "CLEAR_ALL"])
  /\ lastAction' = [type |-> "CLEAR_ALL"]
  /\ steps' = steps + 1
  /\ UNCHANGED <<isLocked, canvasVars>>

AddAnnotation ==
  \E action \in AddAnnotationInputs :
    /\ steps < MaxSteps
    /\ state' = mindMapReducer(state, action)
    /\ lastAction' = action
    /\ steps' = steps + 1
    /\ UNCHANGED <<isLocked, canvasVars>>

UpdateAnnotation ==
  \E action \in UpdateAnnotationInputs :
    /\ steps < MaxSteps
    /\ state' = mindMapReducer(state, action)
    /\ lastAction' = action
    /\ steps' = steps + 1
    /\ UNCHANGED <<isLocked, canvasVars>>

MoveAnnotation ==
  \E action \in MoveAnnotationInputs :
    /\ steps < MaxSteps
    /\ state' = mindMapReducer(state, action)
    /\ lastAction' = action
    /\ steps' = steps + 1
    /\ UNCHANGED <<isLocked, canvasVars>>

DeleteAnnotation ==
  \E action \in DeleteAnnotationInputs :
    /\ steps < MaxSteps
    /\ state' = mindMapReducer(state, action)
    /\ lastAction' = action
    /\ steps' = steps + 1
    /\ UNCHANGED <<isLocked, canvasVars>>

SelectAnnotation ==
  \E action \in SelectAnnotationInputs :
    /\ steps < MaxSteps
    /\ state' = mindMapReducer(state, action)
    /\ lastAction' = action
    /\ steps' = steps + 1
    /\ UNCHANGED <<isLocked, canvasVars>>

AddShape ==
  \E action \in AddShapeInputs :
    /\ steps < MaxSteps
    /\ state' = mindMapReducer(state, action)
    /\ lastAction' = action
    /\ steps' = steps + 1
    /\ UNCHANGED <<isLocked, canvasVars>>

UpdateShape ==
  \E action \in UpdateShapeInputs :
    /\ steps < MaxSteps
    /\ state' = mindMapReducer(state, action)
    /\ lastAction' = action
    /\ steps' = steps + 1
    /\ UNCHANGED <<isLocked, canvasVars>>

MoveShape ==
  \E action \in MoveShapeInputs :
    /\ steps < MaxSteps
    /\ state' = mindMapReducer(state, action)
    /\ lastAction' = action
    /\ steps' = steps + 1
    /\ UNCHANGED <<isLocked, canvasVars>>

DeleteShape ==
  \E action \in DeleteShapeInputs :
    /\ steps < MaxSteps
    /\ state' = mindMapReducer(state, action)
    /\ lastAction' = action
    /\ steps' = steps + 1
    /\ UNCHANGED <<isLocked, canvasVars>>

SelectShape ==
  \E action \in SelectShapeInputs :
    /\ steps < MaxSteps
    /\ state' = mindMapReducer(state, action)
    /\ lastAction' = action
    /\ steps' = steps + 1
    /\ UNCHANGED <<isLocked, canvasVars>>

Undo ==
  /\ steps < MaxSteps
  /\ state' = mindMapReducer(state, [type |-> "UNDO"])
  /\ lastAction' = [type |-> "UNDO"]
  /\ steps' = steps + 1
  /\ UNCHANGED <<isLocked, canvasVars>>

Redo ==
  /\ steps < MaxSteps
  /\ state' = mindMapReducer(state, [type |-> "REDO"])
  /\ lastAction' = [type |-> "REDO"]
  /\ steps' = steps + 1
  /\ UNCHANGED <<isLocked, canvasVars>>

Import ==
  \E action \in ImportInputs :
    /\ steps < MaxSteps
    /\ state' = mindMapReducer(state, action)
    /\ lastAction' = action
    /\ steps' = steps + 1
    /\ UNCHANGED <<isLocked, canvasVars>>

Export ==
  /\ steps < MaxSteps
  /\ state' = mindMapReducer(state, [type |-> "EXPORT"])
  /\ lastAction' = [type |-> "EXPORT"]
  /\ steps' = steps + 1
  /\ UNCHANGED <<isLocked, canvasVars>>

Next ==
  \/ AddNodes
  \/ AddNode
  \/ UpdateNode
  \/ UpdateNodes
  \/ DeleteNode
  \/ DeleteNodes
  \/ MoveNode
  \/ MoveNodes
  \/ SetSelectedNodes
  \/ ToggleNodeSelection
  \/ ClearSelectedNodes
  \/ ClearAll
  \/ AddAnnotation
  \/ UpdateAnnotation
  \/ MoveAnnotation
  \/ DeleteAnnotation
  \/ SelectAnnotation
  \/ AddShape
  \/ UpdateShape
  \/ MoveShape
  \/ DeleteShape
  \/ SelectShape
  \/ Undo
  \/ Redo
  \/ Import
  \/ Export

Spec == Init /\ [][Next]_vars

(***************************************************************************)
(* A second specification for the cascade: the document starts as any      *)
(* node list of at most MaxLen nodes (duplicate ids, dangling and cyclic   *)
(* parent links included), as an IMPORT of that list leaves it, and one    *)
(* DELETE_NODE is dispatched.                                              *)
(***************************************************************************)
CascadeNodes == {Node(id, p) : id \in NodeIds, p \in {null} \cup NodeIds}

\* Sequences over S of length at most n.
RECURSIVE SeqsUpTo(_, _)
SeqsUpTo(S, n) ==
  IF n = 0 THEN {<<>>}
  ELSE LET shorter == SeqsUpTo(S, n - 1)
       IN shorter \cup {Append(q, e) : q \in shorter, e \in S}

InitCascade ==
  /\ \E nodes \in SeqsUpTo(CascadeNodes, MaxLen) :
       /\ Len(nodes) > 0
       /\ state = ReduceImport(initialState, [type |-> "IMPORT", nodes |-> nodes])
  /\ lastAction = [type |-> "INIT"]
  /\ steps = MaxSteps - 1
  /\ isLocked = FALSE
  /\ InitCanvas

NextCascade == DeleteNode

SpecCascade == InitCascade /\ [][NextCascade]_vars

(***************************************************************************)
(* The canvas application (App.tsx): shape geometry.  Lengths are whole    *)
(* numbers of hundredths of a pixel (RING_MIN_RADIUS = 48 is 4800), so     *)
(* that 1.2 and the ratio 2.8 are exact; the lengths that enter the model  *)
(* are multiples of a tenth of a pixel, for which every halving and every  *)
(* product below is exact.                                                 *)
(* Angles are whole numbers of milliradians.                               *)
(***************************************************************************)
RING_DEFAULT_RADIUS == 16000
RING_DEFAULT_THICKNESS == 1800
RING_MIN_RADIUS == 4800
RING_DEFAULT_COLOR == "#38bdf8"
ELLIPSE_DEFAULT_RADIUS_X == 20000
ELLIPSE_DEFAULT_RADIUS_Y == 12000
ELLIPSE_MIN_RADIUS_X == 6000
ELLIPSE_MIN_RADIUS_Y == 4500
ELLIPSE_DEFAULT_THICKNESS == 1400
ELLIPSE_DEFAULT_COLOR == "#a855f7"
RECTANGLE_DEFAULT_WIDTH == 32000
RECTANGLE_DEFAULT_HEIGHT == 20000
RECTANGLE_MIN_WIDTH == 12000
RECTANGLE_MIN_HEIGHT == 8000
RECTANGLE_DEFAULT_THICKNESS == 1200
RECTANGLE_DEFAULT_COLOR == "#34d399"
ARROW_DEFAULT_WIDTH == 34000
ARROW_DEFAULT_HEIGHT == 18000
ARROW_MIN_WIDTH == 3600
ARROW_MIN_HEIGHT == 600
ARROW_DEFAULT_THICKNESS == 4800
ARROW_MIN_THICKNESS == 200
ARROW_DEFAULT_COLOR == "#f97316"
\* 1.2
ARROW_MIN_SHAFT_HALF_HEIGHT == 120
\* 2.8, as numerator and denominator
ARROW_HEAD_BASE_RATIO == <<28, 10>>
ARROW_HEAD_BASE_PADDING == 600
ARROW_MIN_HEAD_HALF_HEIGHT == 700
ARROW_DEFAULT_ANGLE == 0
LINE_DEFAULT_LENGTH == 28000
LINE_DEFAULT_THICKNESS == 800
LINE_MIN_LENGTH == 2000
\* 1.2
LINE_MIN_THICKNESS == 120
LINE_DEFAULT_COLOR == "#22d3ee"
LINE_DEFAULT_ANGLE == 0

\* Math.abs, Math.max, Math.min
Abs(n) == IF n < 0 THEN 0 - n ELSE n

Max2(a, b) == IF a >= b THEN a ELSE b

Min2(a, b) == IF a <= b THEN a ELSE b

MaxOf(S) == CHOOSE m \in S : \A n \in S : n <= m

Times(v, ratio) == (v * ratio[1]) \div ratio[2]

\* Math.hypot: the integer square root of dx^2 + dy^2, found by bisection;
\* the pointer offsets of the model have whole hypotenuses.
RECURSIVE sqrtBetween(_, _, _)
sqrtBetween(n, lo, hi) ==
  IF lo >= hi THEN lo
  ELSE LET mid == (lo + hi + 1) \div 2
       IN IF mid * mid <= n THEN sqrtBetween(n, mid, hi) ELSE sqrtBetween(n, lo, mid - 1)

Hypot(dx, dy) == sqrtBetween(dx * dx + dy * dy, 0, Abs(dx) + Abs(dy))

\* Math.atan2, in milliradians, on the rays the pointer offsets of the model
\* lie on: the positive x and y axes and the directions (3, 4) and (24, 7).
Atan2(dy, dx) ==
  CASE dy = 0 /\ dx >= 0 -> 0
    [] dx = 0 /\ dy > 0 -> 1571
    [] dx > 0 /\ 3 * dy = 4 * dx -> 927
    [] dx > 0 /\ 24 * dy = 7 * dx -> 284

\* Called with the angle of the point as seen from the center, and only so:
\* the rotation by -angle puts the point on the local x axis, at its distance
\* from the center; the local y is then a rounding error below 10^-9.
toLocalCoordinates(point, center, angle) ==
  [x |-> Hypot(point.x - center.x, point.y - center.y), y |-> 0]

enforceArrowHeadHeights(rawHalfHeight, halfThickness) ==
  LET limitedShaftHalfHeight ==
        Max2(ARROW_MIN_SHAFT_HALF_HEIGHT, Min2(halfThickness, rawHalfHeight))
      headHalfHeight ==
        MaxOf({rawHalfHeight,
               Times(limitedShaftHalfHeight, ARROW_HEAD_BASE_RATIO),
               limitedShaftHalfHeight + ARROW_HEAD_BASE_PADDING,
               ARROW_MIN_HEAD_HALF_HEIGHT})
      shaftHalfHeight ==
        Max2(ARROW_MIN_SHAFT_HALF_HEIGHT, Min2(halfThickness, headHalfHeight))
  IN [headHalfHeight |-> headHalfHeight, shaftHalfHeight |-> shaftHalfHeight]

(***************************************************************************)
(* Import and export of JSON files.  A file is a record: chosen (a file    *)
(* was picked), parses (JSON.parse returns) and parsed, the parsed value   *)
(* under the conventions of loadPersistedState: a key that is missing or   *)
(* has another type than the code tests for is a field the record does not *)
(* have, an array item that is not an object is the empty record.          *)
(* JSON.stringify followed by JSON.parse keeps every string, finite number *)
(* and null, which is all the entities of the model hold.                  *)
(***************************************************************************)
\* parsed[key], as the sanitizers see it
property(parsed, key) ==
  IF key \in DOMAIN parsed THEN [isArray |-> TRUE, items |-> parsed[key]]
  ELSE [isArray |-> FALSE]

stringOr(item, key, default) == IF key \in DOMAIN item THEN item[key] ELSE default

\* typeof angle === 'number' && Number.isFinite(angle) ? angle : 0
angleOr0(item) == IF "angle" \in DOMAIN item THEN item.angle ELSE 0

\* Mutant of sanitizeImportedNodes: an empty result is returned as a list.
sanitizeImportedNodesKeepsEmpty(value) ==
  IF ~value.isArray THEN [isNull |-> TRUE]
  ELSE [isNull |-> FALSE,
        nodes |-> Map(LAMBDA node :
                        Spread(node, [color |-> stringOr(node, "color", DEFAULT_NODE_COLOR),
                                      textSize |-> normalizeTextSize(
                                        stringOr(node, "textSize", undefined))]),
                      SelectSeq(value.items,
                                LAMBDA item : HasAll(item, {"id", "parentId", "text", "x", "y"})))]

sanitizeImportedNodes(value) ==
  IF ~value.isArray THEN [isNull |-> TRUE]
  ELSE
    LET sanitized ==
          Map(LAMBDA node :
                Spread(node, [color |-> stringOr(node, "color", DEFAULT_NODE_COLOR),
                              textSize |-> normalizeTextSize(
                                stringOr(node, "textSize", undefined))]),
              SelectSeq(value.items,
                        LAMBDA item : HasAll(item, {"id", "parentId", "text", "x", "y"})))
    IN IF Len(sanitized) = 0 THEN [isNull |-> TRUE]
       ELSE [isNull |-> FALSE, nodes |-> sanitized]

sanitizeImportedAnnotations(value) ==
  IF ~value.isArray THEN <<>>
  ELSE Map(LAMBDA annotation :
             Spread(annotation,
                    [textSize |-> normalizeTextSize(stringOr(annotation, "textSize", undefined))]),
           SelectSeq(value.items, LAMBDA item : HasAll(item, {"id", "text", "x", "y"})))

\* Mutant of sanitizeRing: the radius of the file is kept.
sanitizeRingNoClamp(shape) ==
  [id |-> shape.id, kind |-> "ring", x |-> shape.x, y |-> shape.y,
   radius |-> shape.radius,
   thickness |-> Max2(1 * Unit, Abs(shape.thickness)),
   color |-> stringOr(shape, "color", RING_DEFAULT_COLOR)]

sanitizeRing(shape) ==
  LET radius == Max2(RING_MIN_RADIUS, Abs(shape.radius))
      thickness == Max2(1 * Unit, Abs(shape.thickness))
  IN [id |-> shape.id, kind |-> "ring", x |-> shape.x, y |-> shape.y,
      radius |-> radius,
      thickness |-> Min2(thickness, (radius * 3) \div 2),
      color |-> stringOr(shape, "color", RING_DEFAULT_COLOR)]

sanitizeEllipse(ellipse) ==
  LET radiusX == Max2(ELLIPSE_MIN_RADIUS_X, Abs(ellipse.radiusX))
      radiusY == Max2(ELLIPSE_MIN_RADIUS_Y, Abs(ellipse.radiusY))
      thickness == Max2(1 * Unit, Abs(ellipse.thickness))
      maxThickness == Min2(radiusX, radiusY)
  IN [id |-> ellipse.id, kind |-> "ellipse", x |-> ellipse.x, y |-> ellipse.y,
      radiusX |-> radiusX, radiusY |-> radiusY,
      thickness |-> Min2(thickness, maxThickness),
      color |-> stringOr(ellipse, "color", ELLIPSE_DEFAULT_COLOR)]

sanitizeRectangle(rectangle) ==
  LET width == Max2(RECTANGLE_MIN_WIDTH, Abs(rectangle.width))
      height == Max2(RECTANGLE_MIN_HEIGHT, Abs(rectangle.height))
      thickness == Max2(1 * Unit, Abs(rectangle.thickness))
      maxThickness == Min2(width, height) \div 2
  IN [id |-> rectangle.id, kind |-> "rectangle", x |-> rectangle.x, y |-> rectangle.y,
      width |-> width, height |-> height,
      thickness |-> Min2(thickness, maxThickness),
      color |-> stringOr(rectangle, "color", RECTANGLE_DEFAULT_COLOR)]

sanitizeArrow(arrow) ==
  LET width == Max2(ARROW_MIN_WIDTH, Abs(arrow.width))
      rawHeight == Max2(ARROW_MIN_HEIGHT, Abs(arrow.height))
      thickness == Max2(ARROW_MIN_THICKNESS, Abs(arrow.thickness))
      halfThickness == Max2(thickness \div 2, ARROW_MIN_THICKNESS \div 2)
      height == enforceArrowHeadHeights(rawHeight \div 2, halfThickness).headHalfHeight * 2
      normalizedThickness == Max2(ARROW_MIN_THICKNESS, Min2(thickness, height))
  IN [id |-> arrow.id, kind |-> "arrow", x |-> arrow.x, y |-> arrow.y,
      width |-> width, height |-> height, thickness |-> normalizedThickness,
      angle |-> angleOr0(arrow),
      color |-> stringOr(arrow, "color", ARROW_DEFAULT_COLOR)]

sanitizeLine(line) ==
  [id |-> line.id, kind |-> "line", x |-> line.x, y |-> line.y,
   length |-> Max2(LINE_MIN_LENGTH, Abs(line.length)),
   thickness |-> Max2(LINE_MIN_THICKNESS, Abs(line.thickness)),
   color |-> stringOr(line, "color", LINE_DEFAULT_COLOR),
   angle |-> angleOr0(line)]

\* One step of the reduce over the items: the accumulator with or without
\* the sanitized item.
sanitizeShapeItem(accumulator, item) ==
  LET kind == stringOr(item, "kind", undefined)
  IN CASE kind = "ring" ->
            IF ~HasAll(item, {"id", "x", "y", "radius", "thickness"}) THEN accumulator
            ELSE Append(accumulator, sanitizeRing(item))
       [] kind = "ellipse" ->
            IF ~HasAll(item, {"id", "x", "y", "radiusX", "radiusY", "thickness"})
            THEN accumulator
            ELSE Append(accumulator, sanitizeEllipse(item))
       [] kind = "rectangle" ->
            IF ~HasAll(item, {"id", "x", "y", "width", "height", "thickness"})
            THEN accumulator
            ELSE Append(accumulator, sanitizeRectangle(item))
       [] kind = "arrow" ->
            IF ~HasAll(item, {"id", "x", "y", "width", "height", "thickness"})
            THEN accumulator
            ELSE Append(accumulator, sanitizeArrow(item))
       [] kind = "line" ->
            IF ~HasAll(item, {"id", "x", "y", "length", "thickness"}) THEN accumulator
            ELSE Append(accumulator, sanitizeLine(item))
       [] OTHER -> accumulator

RECURSIVE sanitizeShapesFrom(_, _, _)
sanitizeShapesFrom(items, i, accumulator) ==
  IF i > Len(items) THEN accumulator
  ELSE sanitizeShapesFrom(items, i + 1, sanitizeShapeItem(accumulator, items[i]))

sanitizeImportedShapes(value) ==
  IF ~value.isArray THEN <<>>
  ELSE sanitizeShapesFrom(value.items, 1, <<>>)

\* reader.onload of handleFileChange: the state after the file was read.
importFile(s, file) ==
  IF ~file.parses THEN s
  ELSE LET importedNodes == sanitizeImportedNodes(property(file.parsed, "nodes"))
           importedAnnotations ==
             sanitizeImportedAnnotations(property(file.parsed, "annotations"))
           importedShapes == sanitizeImportedShapes(property(file.parsed, "shapes"))
       IN IF importedNodes.isNull THEN s
          ELSE mindMapReducer(s, [type |-> "IMPORT",
                                  nodes |-> importedNodes.nodes,
                                  annotations |-> importedAnnotations,
                                  shapes |-> importedShapes])

\* The file handleExportJson offers for download.
handleExportJson(s) ==
  [chosen |-> TRUE,
   parses |-> TRUE,
   parsed |-> [nodes |-> s.nodes,
               annotations |-> s.annotations,
               shapes |-> s.shapes,
               exportedAt |-> "2024-01-01T00:00:00.000Z"]]

(***************************************************************************)
(* Resizing a shape by its handle: the shape-resize branch of              *)
(* handlePointerMove.  Each kind's operator returns the updates of the     *)
(* UPDATE_SHAPE it dispatches, or NoUpdate when the handler returns        *)
(* without a dispatch.                                                     *)
(***************************************************************************)
NoUpdate == [dispatch |-> FALSE]

Update(updates) == [dispatch |-> TRUE, updates |-> updates]

\* 0.5 and 0.25 pixel, 0.01 radian
HalfPixel == Unit \div 2

QuarterPixel == Unit \div 4

AngleEpsilon == 10

\* Mutant of resizeRing: the radius follows the pointer without a floor.
resizeRingNoFloor(shape, scenePoint) ==
  LET distance == Hypot(scenePoint.x - shape.x, scenePoint.y - shape.y)
  IN IF Abs(distance - shape.radius) < HalfPixel THEN NoUpdate
     ELSE Update([radius |-> distance])

resizeRing(shape, scenePoint) ==
  LET distance == Hypot(scenePoint.x - shape.x, scenePoint.y - shape.y)
      minRadius == Max2(RING_MIN_RADIUS, shape.thickness \div 2 + 4 * Unit)
      nextRadius == Max2(minRadius, distance)
  IN IF Abs(nextRadius - shape.radius) < HalfPixel THEN NoUpdate
     ELSE Update([radius |-> nextRadius])

resizeEllipse(shape, scenePoint) ==
  LET deltaX == Abs(scenePoint.x - shape.x)
      deltaY == Abs(scenePoint.y - shape.y)
      minRadiusX == Max2(ELLIPSE_MIN_RADIUS_X, shape.thickness \div 2 + 6 * Unit)
      minRadiusY == Max2(ELLIPSE_MIN_RADIUS_Y, shape.thickness \div 2 + 6 * Unit)
      nextRadiusX == Max2(minRadiusX, deltaX)
      nextRadiusY == Max2(minRadiusY, deltaY)
  IN IF /\ Abs(nextRadiusX - shape.radiusX) < HalfPixel
        /\ Abs(nextRadiusY - shape.radiusY) < HalfPixel
     THEN NoUpdate
     ELSE Update([radiusX |-> nextRadiusX, radiusY |-> nextRadiusY])

resizeRectangle(shape, scenePoint) ==
  LET deltaX == Abs(scenePoint.x - shape.x)
      deltaY == Abs(scenePoint.y - shape.y)
      minHalfWidth == Max2(RECTANGLE_MIN_WIDTH \div 2, shape.thickness \div 2 + 6 * Unit)
      minHalfHeight == Max2(RECTANGLE_MIN_HEIGHT \div 2, shape.thickness \div 2 + 6 * Unit)
      nextWidth == Max2(minHalfWidth, deltaX) * 2
      nextHeight == Max2(minHalfHeight, deltaY) * 2
  IN IF /\ Abs(nextWidth - shape.width) < HalfPixel
        /\ Abs(nextHeight - shape.height) < HalfPixel
     THEN NoUpdate
     ELSE Update([width |-> nextWidth, height |-> nextHeight])

resizeArrow(shape, scenePoint) ==
  LET dx == scenePoint.x - shape.x
      dy == scenePoint.y - shape.y
      distance == Hypot(dx, dy)
      nextAngle == Atan2(dy, dx)
      localPoint == toLocalCoordinates(scenePoint, [x |-> shape.x, y |-> shape.y], nextAngle)
      minHalfWidth == ARROW_MIN_WIDTH \div 2
      minHalfHeight == ARROW_MIN_HEIGHT \div 2
      nextHalfWidth == Max2(minHalfWidth, Abs(localPoint.x))
      rawHalfHeight == Max2(minHalfHeight, Abs(localPoint.y))
      nextWidth == nextHalfWidth * 2
      thicknessLimit == Min2(shape.thickness, rawHalfHeight * 2)
      nextThickness == Max2(ARROW_MIN_THICKNESS, thicknessLimit)
      halfThickness == Max2(nextThickness \div 2, ARROW_MIN_THICKNESS \div 2)
      nextHeight == enforceArrowHeadHeights(rawHalfHeight, halfThickness).headHalfHeight * 2
  IN IF distance < HalfPixel THEN NoUpdate
     ELSE IF /\ Abs(nextWidth - shape.width) < HalfPixel
             /\ Abs(nextHeight - shape.height) < HalfPixel
             /\ Abs(nextThickness - shape.thickness) < HalfPixel
             /\ Abs(nextAngle - angleOr0(shape)) < AngleEpsilon
     THEN NoUpdate
     ELSE Update([width |-> nextWidth, height |-> nextHeight,
                  thickness |-> nextThickness, angle |-> nextAngle])

resizeLine(shape, scenePoint) ==
  LET dx == scenePoint.x - shape.x
      dy == scenePoint.y - shape.y
      distance == Hypot(dx, dy)
      nextAngle == Atan2(dy, dx)
      localPoint == toLocalCoordinates(scenePoint, [x |-> shape.x, y |-> shape.y], nextAngle)
      nextLength == Max2(LINE_MIN_LENGTH \div 2, Abs(localPoint.x)) * 2
      nextThickness == Max2(LINE_MIN_THICKNESS, Abs(localPoint.y) * 2)
  IN IF distance < QuarterPixel THEN NoUpdate
     ELSE IF /\ Abs(nextLength - shape.length) < HalfPixel
             /\ Abs(nextThickness - shape.thickness) < HalfPixel
             /\ Abs(nextAngle - angleOr0(shape)) < AngleEpsilon
     THEN NoUpdate
     ELSE Update([length |-> nextLength, thickness |-> nextThickness, angle |-> nextAngle])

shapeResize(shape, scenePoint) ==
  CASE shape.kind = "ring" -> resizeRing(shape, scenePoint)
    [] shape.kind = "ellipse" -> resizeEllipse(shape, scenePoint)
    [] shape.kind = "rectangle" -> resizeRectangle(shape, scenePoint)
    [] shape.kind = "arrow" -> resizeArrow(shape, scenePoint)
    [] shape.kind = "line" -> resizeLine(shape, scenePoint)
    [] OTHER -> NoUpdate

\* shapesRef.current.find((item) => item.id === interaction.shapeId)
findShape(shapes, shapeId) ==
  shapes[CHOOSE i \in 1..Len(shapes) :
           shapes[i].id = shapeId /\ \A j \in 1..(i - 1) : shapes[j].id # shapeId]

\* The actions handlePointerMove dispatches for a shape-resize interaction.
pointerMoveResize(s, locked, interaction, scenePoint) ==
  IF locked \/ interaction.shapeId \notin IdSet(s.shapes) THEN <<>>
  ELSE LET resize == shapeResize(findShape(s.shapes, interaction.shapeId), scenePoint)
       IN IF ~resize.dispatch THEN <<>>
          ELSE <<[type |-> "UPDATE_SHAPE", shapeId |-> interaction.shapeId,
                  updates |-> resize.updates]>>

\* The state after the actions of a handler, dispatched in order.
RECURSIVE dispatchAll(_, _)
dispatchAll(s, actions) ==
  IF Len(actions) = 0 THEN s
  ELSE dispatchAll(mindMapReducer(s, Head(actions)), Tail(actions))

(***************************************************************************)
(* The application as a state machine: the toolbar and pointer handlers    *)
(* that create, resize and import shapes, with the canvas lock.  Each      *)
(* handler is one action; lastAction names the handler and its input.      *)
(* steps counts the events that start something; the events that end it    *)
(* (the release of a pointer that is down, the completion of a file read)  *)
(* are bounded by the events that started it.                              *)
(***************************************************************************)
\* crypto.randomUUID(): an id no earlier call returned.
newShapeId == "shape-" \o ToString(steps)

\* getScenePointFromCanvas(x, y): the scene point under a canvas point, in
\* pixels; the canvas point and the canvas size are whole pixels.
scenePointIn(view, size, x, y) ==
  LET centerX == Ratio(size.width, 2)
      centerY == Ratio(size.height, 2)
  IN [x |-> RDiv(RSub(RSub(Whole(x), centerX), view.offsetX), view.scale),
      y |-> RDiv(RSub(RSub(Whole(y), centerY), view.offsetY), view.scale)]

getScenePointFromCanvas(x, y) == scenePointIn(viewTransform, sizeRef, x, y)

\* getScenePoint(event): the scene point of a pointer event, in the
\* document's unit (the canvas fills the window: getCanvasPoint is the
\* client point).
getScenePoint(event) ==
  LET point == getScenePointFromCanvas(event.clientX, event.clientY)
  IN [x |-> Hundredths(point.x), y |-> Hundredths(point.y)]

\* worldCenterX, worldCenterY of the handlers that add a shape.
worldCenter ==
  [x |-> IF sizeRef.width = 0 THEN 0
         ELSE Hundredths(RDiv(RNeg(viewTransform.offsetX), viewTransform.scale)),
   y |-> IF sizeRef.height = 0 THEN 0
         ELSE Hundredths(RDiv(RNeg(viewTransform.offsetY), viewTransform.scale))]

\* Pointer positions of a resize: on the center, closer to it than every
\* minimum, and farther out along the axes and two diagonals.  The second is
\* 2 pixels from the first, the distance up to which a pan has not moved.
ScenePoints ==
  { [x |-> 0, y |-> 0],
    [x |-> 2 * Unit, y |-> 0],
    [x |-> 5 * Unit, y |-> 0],
    [x |-> 30 * Unit, y |-> 40 * Unit],
    [x |-> 0, y |-> 300 * Unit],
    [x |-> 240 * Unit, y |-> 70 * Unit] }

\* The client positions of the pointer events, in whole pixels: the scene
\* points above when the view is neither panned nor zoomed.
PointerPositions ==
  { [clientX |-> p.x \div Unit, clientY |-> p.y \div Unit] : p \in ScenePoints }

\* The pointers of the model: two fingers, or a mouse and a pen.
PointerIds == {1, 2}

\* What the hit tests of handlePointerDown find under the pointer: the
\* resize handle of a shape, a node, an annotation, the outline of a shape,
\* or nothing.  index is the position of the entity in its list.
HitTargets(s) ==
  {[kind |-> "resize", index |-> i] : i \in 1..Len(s.shapes)}
    \cup {[kind |-> "node", index |-> i] : i \in 1..Len(s.nodes)}
    \cup {[kind |-> "annotation", index |-> i] : i \in 1..Len(s.annotations)}
    \cup {[kind |-> "shape", index |-> i] : i \in 1..Len(s.shapes)}
    \cup {[kind |-> "none", index |-> 0]}

\* The pointer-down events: the primary button on any target, pressed at
\* the canvas origin, and the secondary button (event.button === 2).
PointerDownEvents(s) ==
  {[pointerId |-> p, button |-> 0, clientX |-> 0, clientY |-> 0, hit |-> h] :
     p \in PointerIds, h \in HitTargets(s)}
    \cup {[pointerId |-> p, button |-> 2, clientX |-> 0, clientY |-> 0,
           hit |-> [kind |-> "none", index |-> 0]] : p \in PointerIds}

\* handlePointerDown: the actions it dispatches, whether it starts an
\* interaction and which.
pointerDown(s, locked, view, event, scenePoint) ==
  LET hit == event.hit
  IN CASE event.button = 2 -> [dispatched |-> <<>>, starts |-> FALSE]
       [] event.button # 2 /\ hit.kind = "resize" ->
            [dispatched |-> <<[type |-> "CLEAR_SELECTED_NODES"],
                              [type |-> "SELECT_ANNOTATION", annotationId |-> null],
                              [type |-> "SELECT_SHAPE", shapeId |-> s.shapes[hit.index].id]>>,
             starts |-> ~locked,
             interaction |-> [mode |-> "shape-resize", pointerId |-> event.pointerId,
                              shapeId |-> s.shapes[hit.index].id]]
       [] event.button # 2 /\ hit.kind = "node" ->
            [dispatched |-> <<[type |-> "SELECT_ANNOTATION", annotationId |-> null],
                              [type |-> "SELECT_SHAPE", shapeId |-> null],
                              [type |-> "SET_SELECTED_NODES",
                               nodeIds |-> <<s.nodes[hit.index].id>>]>>,
             starts |-> ~locked,
             interaction |-> [mode |-> "node", pointerId |-> event.pointerId,
                              nodeId |-> s.nodes[hit.index].id,
                              offsetX |-> scenePoint.x - s.nodes[hit.index].x,
                              offsetY |-> scenePoint.y - s.nodes[hit.index].y]]
       [] event.button # 2 /\ hit.kind = "annotation" ->
            [dispatched |-> <<[type |-> "CLEAR_SELECTED_NODES"],
                              [type |-> "SELECT_SHAPE", shapeId |-> null],
                              [type |-> "SELECT_ANNOTATION",
                               annotationId |-> s.annotations[hit.index].id]>>,
             starts |-> ~locked,
             interaction |-> [mode |-> "annotation", pointerId |-> event.pointerId,
                              annotationId |-> s.annotations[hit.index].id,
                              offsetX |-> scenePoint.x - s.annotations[hit.index].x,
                              offsetY |-> scenePoint.y - s.annotations[hit.index].y]]
       [] event.button # 2 /\ hit.kind = "shape" ->
            [dispatched |-> <<[type |-> "CLEAR_SELECTED_NODES"],
                              [type |-> "SELECT_ANNOTATION", annotationId |-> null],
                              [type |-> "SELECT_SHAPE", shapeId |-> s.shapes[hit.index].id]>>,
             starts |-> ~locked,
             interaction |-> [mode |-> "shape-move", pointerId |-> event.pointerId,
                              shapeId |-> s.shapes[hit.index].id,
                              offsetX |-> scenePoint.x - s.shapes[hit.index].x,
                              offsetY |-> scenePoint.y - s.shapes[hit.index].y]]
       [] event.button # 2 /\ hit.kind = "none" ->
            [dispatched |-> <<>>,
             starts |-> event.button = 0 \/ event.button = 1,
             interaction |-> [mode |-> "pan", pointerId |-> event.pointerId,
                              startClientX |-> event.clientX,
                              startClientY |-> event.clientY,
                              startOffsetX |-> view.offsetX,
                              startOffsetY |-> view.offsetY,
                              moved |-> FALSE]]

\* The actions handlePointerMove dispatches for the interaction in progress.
pointerMoveDispatches(s, locked, interaction, scenePoint) ==
  IF interaction.mode = "none" \/ (locked /\ interaction.mode # "pan") THEN <<>>
  ELSE CASE interaction.mode = "node" ->
              <<[type |-> "MOVE_NODE", nodeId |-> interaction.nodeId,
                 x |-> scenePoint.x - interaction.offsetX,
                 y |-> scenePoint.y - interaction.offsetY]>>
         [] interaction.mode = "annotation" ->
              <<[type |-> "MOVE_ANNOTATION", annotationId |-> interaction.annotationId,
                 x |-> scenePoint.x - interaction.offsetX,
                 y |-> scenePoint.y - interaction.offsetY]>>
         [] interaction.mode = "shape-move" ->
              IF interaction.shapeId \notin IdSet(s.shapes) THEN <<>>
              ELSE LET shape == findShape(s.shapes, interaction.shapeId)
                       nextX == scenePoint.x - interaction.offsetX
                       nextY == scenePoint.y - interaction.offsetY
                   IN IF Abs(nextX - shape.x) < HalfPixel /\ Abs(nextY - shape.y) < HalfPixel
                      THEN <<>>
                      ELSE <<[type |-> "MOVE_SHAPE", shapeId |-> interaction.shapeId,
                              x |-> nextX, y |-> nextY]>>
         [] interaction.mode = "shape-resize" ->
              pointerMoveResize(s, locked, interaction, scenePoint)
         [] interaction.mode = "pan" -> <<>>

\* The pan branch of handlePointerMove: the interaction (its moved flag)
\* and the view after the event.  Math.hypot(deltaX, deltaY) > 2 is
\* compared by the squares.
pointerMovePan(interaction, view, event) ==
  LET deltaX == event.clientX - interaction.startClientX
      deltaY == event.clientY - interaction.startClientY
  IN [interaction |->
        [interaction EXCEPT
           !.moved = interaction.moved \/ deltaX * deltaX + deltaY * deltaY > 2 * 2],
      view |-> [view EXCEPT !.offsetX = RAdd(interaction.startOffsetX, Whole(deltaX)),
                            !.offsetY = RAdd(interaction.startOffsetY, Whole(deltaY))]]

\* Mutant of finishDispatches: a pan that moved deselects as well.
finishDispatchesIgnoresMoved(interaction, pointerId, shouldDeselect) ==
  IF interaction.mode = "none" THEN <<>>
  ELSE IF interaction.pointerId # pointerId THEN <<>>
  ELSE IF interaction.mode = "pan" /\ shouldDeselect
       THEN <<[type |-> "CLEAR_SELECTED_NODES"],
              [type |-> "SELECT_ANNOTATION", annotationId |-> null],
              [type |-> "SELECT_SHAPE", shapeId |-> null]>>
       ELSE <<>>

\* finishInteraction(pointerId, shouldDeselect): what it dispatches.
finishDispatches(interaction, pointerId, shouldDeselect) ==
  IF interaction.mode = "none" THEN <<>>
  ELSE IF interaction.pointerId # pointerId THEN <<>>
  ELSE IF interaction.mode = "pan" /\ shouldDeselect /\ ~interaction.moved
       THEN <<[type |-> "CLEAR_SELECTED_NODES"],
              [type |-> "SELECT_ANNOTATION", annotationId |-> null],
              [type |-> "SELECT_SHAPE", shapeId |-> null]>>
       ELSE <<>>

\* Mutant of finishInteraction: a pan is not released.
finishInteractionKeepsPan(interaction, pointerId) ==
  IF interaction.mode = "none" \/ interaction.mode = "pan" THEN interaction
  ELSE IF interaction.pointerId # pointerId THEN interaction
  ELSE NoInteraction

\* finishInteraction(pointerId, shouldDeselect): interactionRef.current after it.
finishInteraction(interaction, pointerId) ==
  IF interaction.mode = "none" THEN interaction
  ELSE IF interaction.pointerId # pointerId THEN interaction
  ELSE NoInteraction

(***************************************************************************)
(* The view transform: zoom, fit to content and pan.  The scale and the    *)
(* offsets are exact fractions, the offsets in pixels.                     *)
(***************************************************************************)
NODE_BASE_RADIUS == 4000
AUTO_CENTER_PADDING == 16000
KEYBOARD_PAN_STEP == 8000
\* 0.25
MIN_ZOOM == Ratio(1, 4)
\* 2.5
MAX_ZOOM == Ratio(5, 2)
\* 1.2
ZOOM_STEP == Ratio(6, 5)

clamp(value, min, max) == RMin(RMax(value, min), max)

\* window.innerWidth, window.innerHeight of a resize, in pixels.
WindowSizes ==
  { [width |-> 1280, height |-> 720],
    [width |-> 1920, height |-> 1200],
    [width |-> 320, height |-> 80],
    [width |-> 0, height |-> 0] }

\* getNodeRadius(node): the radius the label layout gives, which depends on
\* the text metrics of the canvas; never below NODE_BASE_RADIUS.
NodeRadii == {NODE_BASE_RADIUS, NODE_BASE_RADIUS + 12 * Unit}

\* calculateFitView(nodes, size, getNodeRadius), every node of radius radius.
calculateFitView(nodes, size, radius) ==
  IF Len(nodes) = 0 \/ size.width = 0 \/ size.height = 0 THEN [isNull |-> TRUE]
  ELSE LET minX == 0 - MaxOf({radius - nodes[i].x : i \in 1..Len(nodes)})
           maxX == MaxOf({nodes[i].x + radius : i \in 1..Len(nodes)})
           minY == 0 - MaxOf({radius - nodes[i].y : i \in 1..Len(nodes)})
           maxY == MaxOf({nodes[i].y + radius : i \in 1..Len(nodes)})
           paddedMinX == minX - AUTO_CENTER_PADDING
           paddedMaxX == maxX + AUTO_CENTER_PADDING
           paddedMinY == minY - AUTO_CENTER_PADDING
           paddedMaxY == maxY + AUTO_CENTER_PADDING
           contentWidth == Max2(paddedMaxX - paddedMinX, Unit)
           contentHeight == Max2(paddedMaxY - paddedMinY, Unit)
           scaleX == RDiv(Whole(size.width), Pixels(contentWidth))
           scaleY == RDiv(Whole(size.height), Pixels(contentHeight))
           nextScale == clamp(RMin(scaleX, scaleY), MIN_ZOOM, MAX_ZOOM)
           centerX == Ratio(paddedMinX + paddedMaxX, 2 * Unit)
           centerY == Ratio(paddedMinY + paddedMaxY, 2 * Unit)
       IN [isNull |-> FALSE,
           view |-> [scale |-> nextScale,
                     offsetX |-> RMul(RNeg(centerX), nextScale),
                     offsetY |-> RMul(RNeg(centerY), nextScale)]]

NoPivot == [given |-> FALSE]

Pivot(screenX, screenY) == [given |-> TRUE, screenX |-> screenX, screenY |-> screenY]

\* Mutant of adjustZoom: the scale is not clamped.
adjustZoomNoClamp(previous, size, factor, pivot) ==
  [previous EXCEPT !.scale = RMul(previous.scale, factor)]

\* Mutant of adjustZoom: with a pivot the view is scaled about the middle of
\* the canvas, as without one.
adjustZoomAboutCenter(previous, size, factor, pivot) ==
  LET nextScale == clamp(RMul(previous.scale, factor), MIN_ZOOM, MAX_ZOOM)
  IN [scale |-> nextScale,
      offsetX |-> RMul(RDiv(previous.offsetX, previous.scale), nextScale),
      offsetY |-> RMul(RDiv(previous.offsetY, previous.scale), nextScale)]

\* The updater adjustZoom passes to setViewTransform.
adjustZoom(previous, size, factor, pivot) ==
  LET nextScale == clamp(RMul(previous.scale, factor), MIN_ZOOM, MAX_ZOOM)
  IN IF nextScale = previous.scale THEN previous
     ELSE IF pivot.given
     THEN LET centerX == Ratio(size.width, 2)
              centerY == Ratio(size.height, 2)
              worldX == RDiv(RSub(RSub(Whole(pivot.screenX), centerX), previous.offsetX),
                             previous.scale)
              worldY == RDiv(RSub(RSub(Whole(pivot.screenY), centerY), previous.offsetY),
                             previous.scale)
          IN [scale |-> nextScale,
              offsetX |-> RSub(RSub(Whole(pivot.screenX), centerX), RMul(nextScale, worldX)),
              offsetY |-> RSub(RSub(Whole(pivot.screenY), centerY), RMul(nextScale, worldY))]
     ELSE LET worldCenterX == RDiv(RNeg(previous.offsetX), previous.scale)
              worldCenterY == RDiv(RNeg(previous.offsetY), previous.scale)
          IN [scale |-> nextScale,
              offsetX |-> RMul(RNeg(worldCenterX), nextScale),
              offsetY |-> RMul(RNeg(worldCenterY), nextScale)]

\* The updater panByPixels passes to setViewTransform.
panByPixels(previous, deltaX, deltaY) ==
  [previous EXCEPT !.offsetX = RSub(previous.offsetX, Pixels(deltaX)),
                   !.offsetY = RSub(previous.offsetY, Pixels(deltaY))]

\* The last file holds well-formed nodes whose parent links name a node
\* that is not in the file and each other, and an id twice.
ImportFiles ==
  { [chosen |-> FALSE],
    [chosen |-> TRUE, parses |-> FALSE],
    [chosen |-> TRUE, parses |-> TRUE,
     parsed |-> [annotations |-> <<Annotation("note1")>>]],
    [chosen |-> TRUE, parses |-> TRUE, parsed |-> [nodes |-> <<>>]],
    [chosen |-> TRUE, parses |-> TRUE,
     parsed |-> [nodes |-> <<[id |-> "a", text |-> "Idea"], <<>>>>,
                 shapes |-> <<Ring("ring1")>>]],
    [chosen |-> TRUE, parses |-> TRUE,
     parsed |-> [nodes |-> <<Node("root", null)>>,
                 shapes |-> <<[id |-> "e1", kind |-> "ellipse", x |-> 0, y |-> 0,
                               radiusX |-> 10 * Unit, radiusY |-> 300 * Unit,
                               thickness |-> 80 * Unit],
                              [id |-> "r1", kind |-> "rectangle", x |-> 0, y |-> 0,
                               width |-> 0 - 10 * Unit, height |-> 400 * Unit,
                               thickness |-> 0, color |-> "#000000"],
                              [id |-> "ring2", kind |-> "ring", x |-> 0, y |-> 0,
                               radius |-> 200 * Unit, thickness |-> 100 * Unit]>>]],
    [chosen |-> TRUE, parses |-> TRUE,
     parsed |-> [nodes |-> <<[id |-> "b", parentId |-> null, text |-> "Idea",
                              x |-> 0, y |-> 0, textSize |-> "huge"],
                             [id |-> "a", x |-> 0, y |-> 0]>>,
                 annotations |-> <<[id |-> "note1", text |-> "Note", x |-> 0, y |-> 0],
                                   [id |-> "note2", text |-> "Note"]>>,
                 shapes |-> <<[id |-> "ring1", kind |-> "ring", x |-> 0, y |-> 0,
                               radius |-> 10 * Unit, thickness |-> 40 * Unit],
                              [id |-> "star1", kind |-> "star", x |-> 0, y |-> 0],
                              [id |-> "e2", kind |-> "ellipse", x |-> 0, y |-> 0,
                               radiusX |-> 100 * Unit, thickness |-> 4 * Unit],
                              <<>>,
                              [id |-> "arrow1", kind |-> "arrow", x |-> 0, y |-> 0,
                               width |-> 10 * Unit, height |-> 100 * Unit,
                               thickness |-> 200 * Unit],
                              [id |-> "line1", kind |-> "line", x |-> 0, y |-> 0,
                               length |-> 5 * Unit, thickness |-> 0]>>]],
    [chosen |-> TRUE, parses |-> TRUE,
     parsed |-> [nodes |-> <<Node("root", null), Node("a", "b"), Node("b", "a"),
                             Node("a", "gone")>>]] }

\* setIsLocked and the effect of isLocked: locking drops the interaction.
toggleLock ==
  /\ steps < MaxSteps
  /\ isLocked' = ~isLocked
  /\ interactionRef' = IF ~isLocked THEN NoInteraction ELSE interactionRef
  /\ lastAction' = [type |-> "toggleLock"]
  /\ steps' = steps + 1
  /\ UNCHANGED <<state, pressed, readers, viewTransform, sizeRef, hasAutoCenteredRef>>

\* The change event of the file input: reader.readAsText(file) starts a
\* read whose onload runs later.
handleFileChange ==
  \E file \in ImportFiles :
    /\ steps < MaxSteps
    /\ readers' = IF isLocked \/ ~file.chosen THEN readers ELSE Append(readers, file)
    /\ lastAction' = [type |-> "handleFileChange", file |-> file, isLocked |-> isLocked]
    /\ steps' = steps + 1
    /\ UNCHANGED <<state, isLocked, interactionRef, pressed, viewTransform, sizeRef,
                   hasAutoCenteredRef>>

\* reader.onload of a read in progress; the reads started are its bound.
readerOnload ==
  \E i \in 1..Len(readers) :
    /\ state' = importFile(state, readers[i])
    /\ readers' = [j \in 1..(Len(readers) - 1) |->
                     IF j < i THEN readers[j] ELSE readers[j + 1]]
    /\ lastAction' = [type |-> "reader.onload", file |-> readers[i], isLocked |-> isLocked]
    /\ UNCHANGED <<steps, isLocked, interactionRef, pressed, viewTransform, sizeRef,
                   hasAutoCenteredRef>>

handleAddRing ==
  /\ steps < MaxSteps
  /\ state' =
       IF isLocked THEN state
       ELSE mindMapReducer(state,
              [type |-> "ADD_SHAPE",
               shape |-> [id |-> newShapeId, kind |-> "ring",
                          x |-> worldCenter.x, y |-> worldCenter.y,
                          radius |-> RING_DEFAULT_RADIUS,
                          thickness |-> RING_DEFAULT_THICKNESS,
                          color |-> RING_DEFAULT_COLOR]])
  /\ lastAction' = [type |-> "handleAddRing", isLocked |-> isLocked]
  /\ steps' = steps + 1
  /\ UNCHANGED <<isLocked, canvasVars>>

handleAddEllipse ==
  /\ steps < MaxSteps
  /\ state' =
       IF isLocked THEN state
       ELSE mindMapReducer(state,
              [type |-> "ADD_SHAPE",
               shape |-> [id |-> newShapeId, kind |-> "ellipse",
                          x |-> worldCenter.x, y |-> worldCenter.y,
                          radiusX |-> ELLIPSE_DEFAULT_RADIUS_X,
                          radiusY |-> ELLIPSE_DEFAULT_RADIUS_Y,
                          thickness |-> ELLIPSE_DEFAULT_THICKNESS,
                          color |-> ELLIPSE_DEFAULT_COLOR]])
  /\ lastAction' = [type |-> "handleAddEllipse", isLocked |-> isLocked]
  /\ steps' = steps + 1
  /\ UNCHANGED <<isLocked, canvasVars>>

handleAddRectangle ==
  /\ steps < MaxSteps
  /\ state' =
       IF isLocked THEN state
       ELSE mindMapReducer(state,
              [type |-> "ADD_SHAPE",
               shape |-> [id |-> newShapeId, kind |-> "rectangle",
                          x |-> worldCenter.x, y |-> worldCenter.y,
                          width |-> RECTANGLE_DEFAULT_WIDTH,
                          height |-> RECTANGLE_DEFAULT_HEIGHT,
                          thickness |-> RECTANGLE_DEFAULT_THICKNESS,
                          color |-> RECTANGLE_DEFAULT_COLOR]])
  /\ lastAction' = [type |-> "handleAddRectangle", isLocked |-> isLocked]
  /\ steps' = steps + 1
  /\ UNCHANGED <<isLocked, canvasVars>>

handleAddArrow ==
  /\ steps < MaxSteps
  /\ state' =
       IF isLocked THEN state
       ELSE mindMapReducer(state,
              [type |-> "ADD_SHAPE",
               shape |-> [id |-> newShapeId, kind |-> "arrow",
                          x |-> worldCenter.x, y |-> worldCenter.y,
                          width |-> ARROW_DEFAULT_WIDTH,
                          height |-> ARROW_DEFAULT_HEIGHT,
                          thickness |-> ARROW_DEFAULT_THICKNESS,
                          angle |-> ARROW_DEFAULT_ANGLE,
                          color |-> ARROW_DEFAULT_COLOR]])
  /\ lastAction' = [type |-> "handleAddArrow", isLocked |-> isLocked]
  /\ steps' = steps + 1
  /\ UNCHANGED <<isLocked, canvasVars>>

handleAddLine ==
  /\ steps < MaxSteps
  /\ state' =
       IF isLocked THEN state
       ELSE mindMapReducer(state,
              [type |-> "ADD_SHAPE",
               shape |-> [id |-> newShapeId, kind |-> "line",
                          x |-> worldCenter.x, y |-> worldCenter.y,
                          length |-> LINE_DEFAULT_LENGTH,
                          thickness |-> LINE_DEFAULT_THICKNESS,
                          angle |-> LINE_DEFAULT_ANGLE,
                          color |-> LINE_DEFAULT_COLOR]])
  /\ lastAction' = [type |-> "handleAddLine", isLocked |-> isLocked]
  /\ steps' = steps + 1
  /\ UNCHANGED <<isLocked, canvasVars>>

\* pointerdown on the canvas, from a pointer that is not down.
handlePointerDown ==
  \E event \in PointerDownEvents(state) :
    LET down == pointerDown(state, isLocked, viewTransform, event, getScenePoint(event))
    IN /\ steps < MaxSteps
       /\ event.pointerId \notin pressed
       /\ state' = dispatchAll(state, down.dispatched)
       /\ interactionRef' = IF down.starts THEN down.interaction ELSE interactionRef
       /\ pressed' = pressed \cup {event.pointerId}
       /\ lastAction' = [type |-> "handlePointerDown", event |-> event,
                         isLocked |-> isLocked]
       /\ steps' = steps + 1
       /\ UNCHANGED <<isLocked, readers, viewTransform, sizeRef, hasAutoCenteredRef>>

\* pointermove on the canvas; the handler does not read the pointer id.
handlePointerMove ==
  \E event \in PointerPositions :
    LET interaction == interactionRef
        scenePoint == getScenePoint(event)
        dispatched == pointerMoveDispatches(state, isLocked, interaction, scenePoint)
        pans == interaction.mode = "pan"
        pan == pointerMovePan(interaction, viewTransform, event)
    IN /\ steps < MaxSteps
       /\ state' = dispatchAll(state, dispatched)
       /\ interactionRef' = IF pans THEN pan.interaction ELSE interactionRef
       /\ viewTransform' = IF pans THEN pan.view ELSE viewTransform
       /\ hasAutoCenteredRef' = IF pans THEN TRUE ELSE hasAutoCenteredRef
       /\ lastAction' = [type |-> "handlePointerMove", interaction |-> interaction,
                         event |-> event, scenePoint |-> scenePoint,
                         dispatched |-> dispatched, isLocked |-> isLocked]
       /\ steps' = steps + 1
       /\ UNCHANGED <<isLocked, pressed, readers, sizeRef>>

\* pointerup of a pointer that is down: finishInteraction(pointerId, true).
handlePointerUp ==
  \E pointerId \in pressed :
    /\ state' = dispatchAll(state, finishDispatches(interactionRef, pointerId, TRUE))
    /\ interactionRef' = finishInteraction(interactionRef, pointerId)
    /\ pressed' = pressed \ {pointerId}
    /\ lastAction' = [type |-> "handlePointerUp", pointerId |-> pointerId,
                      interaction |-> interactionRef]
    /\ UNCHANGED <<steps, isLocked, readers, viewTransform, sizeRef, hasAutoCenteredRef>>

\* pointercancel of a pointer that is down: finishInteraction(pointerId, false).
handlePointerCancel ==
  \E pointerId \in pressed :
    /\ state' = dispatchAll(state, finishDispatches(interactionRef, pointerId, FALSE))
    /\ interactionRef' = finishInteraction(interactionRef, pointerId)
    /\ pressed' = pressed \ {pointerId}
    /\ lastAction' = [type |-> "handlePointerCancel", pointerId |-> pointerId,
                      interaction |-> interactionRef]
    /\ UNCHANGED <<steps, isLocked, readers, viewTransform, sizeRef, hasAutoCenteredRef>>

handleUndo ==
  /\ steps < MaxSteps
  /\ state' = IF isLocked \/ Len(past) = 0 THEN state
              ELSE mindMapReducer(state, [type |-> "UNDO"])
  /\ lastAction' = [type |-> "handleUndo", isLocked |-> isLocked]
  /\ steps' = steps + 1
  /\ UNCHANGED <<isLocked, canvasVars>>

NextApp ==
  \/ toggleLock
  \/ handleFileChange
  \/ readerOnload
  \/ handleAddRing
  \/ handleAddEllipse
  \/ handleAddRectangle
  \/ handleAddArrow
  \/ handleAddLine
  \/ handlePointerDown
  \/ handlePointerMove
  \/ handlePointerUp
  \/ handlePointerCancel
  \/ handleUndo

SpecApp == Init /\ [][NextApp]_vars

(***************************************************************************)
(* The view of the canvas as a state machine: the window resize, the       *)
(* wheel, the zoom, fit and pan controls, and the pointer handlers, whose  *)
(* pan branch moves the view.                                              *)
(***************************************************************************)
\* resizeCanvas: the mount effect and the resize event of the window.
resizeCanvas ==
  \E size \in WindowSizes, radius \in NodeRadii :
    LET fitTransform == calculateFitView(state.nodes, size, radius)
        fits == ~hasAutoCenteredRef /\ ~fitTransform.isNull
    IN /\ steps < MaxSteps
       /\ sizeRef' = size
       /\ hasAutoCenteredRef' = IF fits THEN TRUE ELSE hasAutoCenteredRef
       /\ viewTransform' = IF fits THEN fitTransform.view ELSE viewTransform
       /\ lastAction' = [type |-> "resizeCanvas", size |-> size]
       /\ steps' = steps + 1
       /\ UNCHANGED <<state, isLocked, interactionRef, pressed, readers>>

handleWheel ==
  \E deltaY \in {0 - 1, 1}, event \in PointerPositions :
    LET zoomFactor == IF deltaY < 0 THEN ZOOM_STEP ELSE RDiv(Whole(1), ZOOM_STEP)
        pivot == Pivot(event.clientX, event.clientY)
    IN /\ steps < MaxSteps
       /\ viewTransform' = adjustZoom(viewTransform, sizeRef, zoomFactor, pivot)
       /\ hasAutoCenteredRef' = TRUE
       /\ lastAction' = [type |-> "handleWheel", factor |-> zoomFactor, pivot |-> pivot,
                         previous |-> viewTransform]
       /\ steps' = steps + 1
       /\ UNCHANGED <<state, isLocked, interactionRef, pressed, readers, sizeRef>>

handleZoomIn ==
  /\ steps < MaxSteps
  /\ viewTransform' = adjustZoom(viewTransform, sizeRef, ZOOM_STEP, NoPivot)
  /\ hasAutoCenteredRef' = TRUE
  /\ lastAction' = [type |-> "handleZoomIn", factor |-> ZOOM_STEP, pivot |-> NoPivot,
                    previous |-> viewTransform]
  /\ steps' = steps + 1
  /\ UNCHANGED <<state, isLocked, interactionRef, pressed, readers, sizeRef>>

handleZoomOut ==
  /\ steps < MaxSteps
  /\ viewTransform' = adjustZoom(viewTransform, sizeRef, RDiv(Whole(1), ZOOM_STEP), NoPivot)
  /\ hasAutoCenteredRef' = TRUE
  /\ lastAction' = [type |-> "handleZoomOut", factor |-> RDiv(Whole(1), ZOOM_STEP),
                    pivot |-> NoPivot, previous |-> viewTransform]
  /\ steps' = steps + 1
  /\ UNCHANGED <<state, isLocked, interactionRef, pressed, readers, sizeRef>>

handleResetView ==
  \E radius \in NodeRadii :
    LET fitTransform == calculateFitView(state.nodes, sizeRef, radius)
    IN /\ steps < MaxSteps
       /\ viewTransform' =
            IF fitTransform.isNull
            THEN [scale |-> Whole(1), offsetX |-> Whole(0), offsetY |-> Whole(0)]
            ELSE fitTransform.view
       /\ hasAutoCenteredRef' = IF fitTransform.isNull THEN hasAutoCenteredRef ELSE TRUE
       /\ lastAction' = [type |-> "handleResetView"]
       /\ steps' = steps + 1
       /\ UNCHANGED <<state, isLocked, interactionRef, pressed, readers, sizeRef>>

handlePanUp ==
  /\ steps < MaxSteps
  /\ viewTransform' = panByPixels(viewTransform, 0, 0 - KEYBOARD_PAN_STEP)
  /\ hasAutoCenteredRef' = TRUE
  /\ lastAction' = [type |-> "handlePanUp"]
  /\ steps' = steps + 1
  /\ UNCHANGED <<state, isLocked, interactionRef, pressed, readers, sizeRef>>

handlePanDown ==
  /\ steps < MaxSteps
  /\ viewTransform' = panByPixels(viewTransform, 0, KEYBOARD_PAN_STEP)
  /\ hasAutoCenteredRef' = TRUE
  /\ lastAction' = [type |-> "handlePanDown"]
  /\ steps' = steps + 1
  /\ UNCHANGED <<state, isLocked, interactionRef, pressed, readers, sizeRef>>

handlePanLeft ==
  /\ steps < MaxSteps
  /\ viewTransform' = panByPixels(viewTransform, 0 - KEYBOARD_PAN_STEP, 0)
  /\ hasAutoCenteredRef' = TRUE
  /\ lastAction' = [type |-> "handlePanLeft"]
  /\ steps' = steps + 1
  /\ UNCHANGED <<state, isLocked, interactionRef, pressed, readers, sizeRef>>

handlePanRight ==
  /\ steps < MaxSteps
  /\ viewTransform' = panByPixels(viewTransform, KEYBOARD_PAN_STEP, 0)
  /\ hasAutoCenteredRef' = TRUE
  /\ lastAction' = [type |-> "handlePanRight"]
  /\ steps' = steps + 1
  /\ UNCHANGED <<state, isLocked, interactionRef, pressed, readers, sizeRef>>

NextView ==
  \/ resizeCanvas
  \/ handleWheel
  \/ handleZoomIn
  \/ handleZoomOut
  \/ handleResetView
  \/ handlePanUp
  \/ handlePanDown
  \/ handlePanLeft
  \/ handlePanRight
  \/ handlePointerDown
  \/ handlePointerMove
  \/ handlePointerUp
  \/ handlePointerCancel

SpecView == Init /\ [][NextView]_vars

(***************************************************************************)
(* Vocabulary of the properties.                                           *)
(***************************************************************************)
\* The document: nodes, annotations and shapes, without selection and history.
Doc(s) == [nodes |-> s.nodes, annotations |-> s.annotations, shapes |-> s.shapes]

\* The action types of the Document Model's mutating calls.
MutatingTypes ==
  {"ADD_NODES", "ADD_NODE", "UPDATE_NODE", "UPDATE_NODES", "DELETE_NODE", "DELETE_NODES",
   "MOVE_NODE", "MOVE_NODES", "CLEAR_ALL",
   "ADD_ANNOTATION", "UPDATE_ANNOTATION", "MOVE_ANNOTATION", "DELETE_ANNOTATION",
   "ADD_SHAPE", "UPDATE_SHAPE", "MOVE_SHAPE", "DELETE_SHAPE"}

SelectionTypes ==
  {"SET_SELECTED_NODES", "TOGGLE_NODE_SELECTION", "CLEAR_SELECTED_NODES",
   "SELECT_ANNOTATION", "SELECT_SHAPE"}

\* The ids reachable from the ids of S by following parentId links downwards.
RECURSIVE ReachableDown(_, _)
ReachableDown(nodes, S) ==
  LET more == S \cup {nodes[i].id : i \in {j \in 1..Len(nodes) : nodes[j].parentId \in S}}
  IN IF more = S THEN S ELSE ReachableDown(nodes, more)

SubtreeIds(nodes, id) == ReachableDown(nodes, {id})

LastPast == past[Len(past)]

(***************************************************************************)
(* C1.  Cascade deletion: DELETE_NODE of an id N present in the node list  *)
(* leaves exactly the nodes that are neither N nor reachable from N by     *)
(* parentId links downwards, in their previous order; when every node is   *)
(* the root or one of its descendants, deleting the root leaves no node.   *)
(***************************************************************************)
CascadeDeletion ==
  [][(lastAction'.type = "DELETE_NODE" /\ lastAction'.nodeId \in IdSet(state.nodes))
       => LET removed == SubtreeIds(state.nodes, lastAction'.nodeId)
          IN /\ state'.nodes = SelectSeq(state.nodes, LAMBDA n : n.id \notin removed)
             /\ (lastAction'.nodeId = ROOT_NODE_ID /\ IdSet(state.nodes) \subseteq removed)
                  => state'.nodes = <<>>]_vars

\* A DELETE_NODE has removed a node together with a descendant and left another node.
CascadeDeletionWitness ==
  /\ lastAction.type = "DELETE_NODE"
  /\ Len(past) > 0
  /\ lastAction.nodeId \in IdSet(LastPast.nodes)
  /\ Cardinality(SubtreeIds(LastPast.nodes, lastAction.nodeId)) >= 2
  /\ Len(state.nodes) >= 1
  /\ Len(state.nodes) + 2 <= Len(LastPast.nodes)

(***************************************************************************)
(* C2.  As claimed: an UNDO issued immediately after any mutating call     *)
(* restores nodes, annotations and shapes as they were before that call.   *)
(***************************************************************************)
UndoRestoresBeforeAnyCall ==
  [][lastAction'.type \in MutatingTypes
       => Doc(ReduceUndo(state')) = Doc(state)]_vars

(***************************************************************************)
(* C2, amended.  An UNDO issued immediately after a mutating call that     *)
(* pushed a snapshot (as every call that changes the document does)        *)
(* restores nodes, annotations and shapes as they were before that call.   *)
(***************************************************************************)
UndoRestoresBeforeCommittedCall ==
  [][(lastAction'.type \in MutatingTypes /\ state'.history.past # past)
       => Doc(ReduceUndo(state')) = Doc(state)]_vars

\* A mutating call has changed a document that already had a history.
UndoRestoresWitness ==
  /\ lastAction.type \in MutatingTypes
  /\ Len(past) >= 2
  /\ Doc(state) # LastPast
  /\ LastPast # past[Len(past) - 1]

(***************************************************************************)
(* C3.  In every reachable state with a non-empty past, UNDO followed      *)
(* immediately by REDO yields the nodes, annotations and shapes of before  *)
(* the UNDO.                                                               *)
(***************************************************************************)
UndoThenRedo ==
  Len(past) > 0 => Doc(ReduceRedo(ReduceUndo(state))) = Doc(state)

\* A REDO has acted, after an UNDO, and brought back a document that differs
\* from the one the UNDO had restored.
UndoThenRedoWitness ==
  /\ lastAction.type = "REDO"
  /\ Len(past) > 0
  /\ Doc(state) # LastPast

(***************************************************************************)
(* C4.  Every mutating call that changes nodes, annotations or shapes      *)
(* appends exactly one snapshot to past, the document as it was before     *)
(* the call; the batch calls too, however many nodes they touch.           *)
(***************************************************************************)
OneSnapshotPerMutation ==
  [][(lastAction'.type \in MutatingTypes /\ Doc(state') # Doc(state))
       => state'.history.past = Append(past, Doc(state))]_vars

\* A batch call has changed two nodes at once.
OneSnapshotPerMutationWitness ==
  /\ lastAction.type \in {"MOVE_NODES", "UPDATE_NODES", "DELETE_NODES"}
  /\ Len(past) > 0
  /\ Cardinality({n \in Range(LastPast.nodes) : n \notin Range(state.nodes)}) >= 2

(***************************************************************************)
(* C5.  A call of a Document Model operation that leaves nodes,            *)
(* annotations and shapes unchanged pushes no snapshot: past and future    *)
(* are after the call what they were before.                               *)
(***************************************************************************)
NoOpPushesNoSnapshot ==
  [][(lastAction'.type \in MutatingTypes \cup SelectionTypes /\ Doc(state') = Doc(state))
       => state'.history = state.history]_vars

(***************************************************************************)
(* C6.  MOVE_NODE to the node's current coordinates, or of an id that is   *)
(* not in the node list, returns the state unchanged: nodes, selection,    *)
(* past and future.                                                        *)
(***************************************************************************)
MoveNodeNoOp ==
  [][(/\ lastAction'.type = "MOVE_NODE"
      /\ \A i \in 1..Len(state.nodes) :
           state.nodes[i].id = lastAction'.nodeId
             => (state.nodes[i].x = lastAction'.x /\ state.nodes[i].y = lastAction'.y))
       => state' = state]_vars

\* A MOVE_NODE of a present node has acted and left a redo stack standing,
\* which only a move that changed nothing does.
MoveNodeNoOpWitness ==
  /\ lastAction.type = "MOVE_NODE"
  /\ lastAction.nodeId \in IdSet(state.nodes)
  /\ Len(future) > 0

(***************************************************************************)
(* C7.  At most one selection domain is active in every reachable state:   *)
(* at most one of a non-empty node selection, a selected annotation and a  *)
(* selected shape.                                                         *)
(***************************************************************************)
OneSelectionDomain ==
  Cardinality({k \in {"nodes", "annotation", "shape"} :
                 \/ k = "nodes" /\ Len(state.selectedNodeIds) > 0
                 \/ k = "annotation" /\ state.selectedAnnotationId # null
                 \/ k = "shape" /\ state.selectedShapeId # null}) <= 1

(***************************************************************************)
(* C8.  A commit clears the redo stack and appends exactly one entry to    *)
(* past, leaving the earlier entries as they were; REDO is then a no-op.   *)
(***************************************************************************)
CommitClearsFuture ==
  [][(lastAction'.type \in MutatingTypes /\ state'.history.past # past)
       => /\ state'.history.future = <<>>
          /\ Len(state'.history.past) = Len(past) + 1
          /\ SubSeq(state'.history.past, 1, Len(past)) = past
          /\ ReduceRedo(state') = state']_vars

\* A commit has been made on top of an earlier history entry.
CommitClearsFutureWitness ==
  /\ lastAction.type \in MutatingTypes
  /\ Len(past) >= 2
  /\ Len(future) = 0
  /\ Doc(state) # LastPast

(***************************************************************************)
(* C9.  UNDO with an empty past and REDO with an empty future leave the    *)
(* whole state unchanged.                                                  *)
(***************************************************************************)
UndoRedoAtTheEnds ==
  [][/\ (lastAction'.type = "UNDO" /\ Len(past) = 0) => state' = state
     /\ (lastAction'.type = "REDO" /\ Len(future) = 0) => state' = state]_vars

\* An UNDO has acted and left both stacks empty: an UNDO that pops an entry
\* leaves a redo stack behind, so this one met an empty past.
UndoRedoAtTheEndsWitness ==
  /\ lastAction.type = "UNDO"
  /\ Len(past) = 0
  /\ Len(future) = 0

(***************************************************************************)
(* C10.  No stale selection: in every reachable state every selected node  *)
(* id is the id of a node, and the selected annotation and shape ids are   *)
(* null or the ids of an annotation and a shape of the document.           *)
(***************************************************************************)
NoStaleSelection ==
  /\ \A i \in 1..Len(state.selectedNodeIds) : state.selectedNodeIds[i] \in IdSet(state.nodes)
  /\ state.selectedAnnotationId # null => state.selectedAnnotationId \in IdSet(state.annotations)
  /\ state.selectedShapeId # null => state.selectedShapeId \in IdSet(state.shapes)

\* A delete has removed the selected annotation, and no annotation is selected.
NoStaleSelectionWitness ==
  /\ lastAction.type = "DELETE_ANNOTATION"
  /\ Len(past) > 0
  /\ lastAction.annotationId \in IdSet(LastPast.annotations)
  /\ lastAction.annotationId \notin IdSet(state.annotations)
  /\ state.selectedAnnotationId = null
  /\ Len(state.annotations) > 0

(***************************************************************************)
(* C11.  Selection across UNDO and REDO: for each selection kind the       *)
(* selected ids that exist in the restored snapshot are kept (node ids in  *)
(* their previous order) and the others dropped; the first entity of the   *)
(* kind is selected instead only when the selection before the step named  *)
(* ids none of which exist in the restored snapshot; a kind with no        *)
(* selection before the step (empty node selection, null annotation id,    *)
(* null shape id) has none after it.                                       *)
(***************************************************************************)
KeptNodeIds(selected, nodes) == SelectSeq(selected, LAMBDA id : id \in IdSet(nodes))

ExpectedNodeSelection(selected, nodes) ==
  IF Len(selected) = 0 THEN <<>>
  ELSE IF Len(KeptNodeIds(selected, nodes)) > 0 THEN KeptNodeIds(selected, nodes)
  ELSE IF Len(nodes) > 0 THEN <<nodes[1].id>>
  ELSE <<>>

ExpectedSingleSelection(selected, list) ==
  IF selected = null THEN null
  ELSE IF selected \in IdSet(list) THEN selected
  ELSE IF Len(list) > 0 THEN list[1].id
  ELSE null

UndoSelectionResolution ==
  [][(lastAction'.type \in {"UNDO", "REDO"} /\ state'.history # state.history)
       => /\ state'.selectedNodeIds =
               ExpectedNodeSelection(state.selectedNodeIds, state'.nodes)
          /\ state'.selectedAnnotationId =
               ExpectedSingleSelection(state.selectedAnnotationId, state'.annotations)
          /\ state'.selectedShapeId =
               ExpectedSingleSelection(state.selectedShapeId, state'.shapes)]_vars

(***************************************************************************)
(* C12.  IMPORT starts a fresh history: right after it past and future are *)
(* empty whatever they held before, so UNDO and REDO are no-ops, and       *)
(* nodes, annotations and shapes are exactly the imported lists (no        *)
(* annotations or shapes when the action carries none).                    *)
(***************************************************************************)
ImportFreshHistory ==
  [][lastAction'.type = "IMPORT"
       => /\ state'.history = [past |-> <<>>, future |-> <<>>]
          /\ ReduceUndo(state') = state'
          /\ ReduceRedo(state') = state'
          /\ state'.nodes = lastAction'.nodes
          /\ state'.annotations =
               (IF "annotations" \in DOMAIN lastAction' THEN lastAction'.annotations
                ELSE <<>>)
          /\ state'.shapes =
               (IF "shapes" \in DOMAIN lastAction' THEN lastAction'.shapes ELSE <<>>)]_vars

\* An import without annotations has acted after two earlier dispatches and
\* left a document with no annotation, no shape and no history.
ImportFreshHistoryWitness ==
  /\ lastAction.type = "IMPORT"
  /\ "annotations" \notin DOMAIN lastAction
  /\ steps = 3
  /\ state.nodes = lastAction.nodes
  /\ Len(state.annotations) = 0
  /\ Len(past) = 0

(***************************************************************************)
(* C13.  History after CLEAR_ALL.  As stated: after CLEAR_ALL both past    *)
(* and future are empty.  As the reducer does it: CLEAR_ALL of a document  *)
(* that is not the pristine one is a commit, which appends the previous    *)
(* document to past and empties future; CLEAR_ALL of the pristine document *)
(* leaves both stacks as they were.                                        *)
(***************************************************************************)
PristineDoc == [nodes |-> <<resetRoot>>, annotations |-> <<>>, shapes |-> <<>>]

ClearAllResetsHistory ==
  [][lastAction'.type = "CLEAR_ALL"
       => state'.history = [past |-> <<>>, future |-> <<>>]]_vars

ClearAllCommits ==
  [][lastAction'.type = "CLEAR_ALL"
       => IF Doc(state) = PristineDoc
          THEN state'.history = state.history
          ELSE /\ state'.history.past = Append(past, Doc(state))
               /\ state'.history.future = <<>>]_vars

\* A CLEAR_ALL has committed on top of an earlier history entry.
ClearAllCommitsWitness ==
  /\ lastAction.type = "CLEAR_ALL"
  /\ Len(past) = 2
  /\ LastPast # PristineDoc
  /\ Doc(state) = PristineDoc

(***************************************************************************)
(* C14.  Result of CLEAR_ALL.  As stated: from any state the document      *)
(* becomes the pristine one (the single default root node, no annotation,  *)
(* no shape) with the root as the only selection, and on a pristine        *)
(* document nothing changes.  As the reducer does it: the selection is     *)
(* reset to the root only when the document was not pristine; on a         *)
(* pristine document the whole state, its selection included, is kept.     *)
(***************************************************************************)
ClearAllSelectsRoot ==
  [][lastAction'.type = "CLEAR_ALL"
       => /\ Doc(state') = PristineDoc
          /\ state'.selectedNodeIds = <<ROOT_NODE_ID>>
          /\ Doc(state) = PristineDoc => state' = state]_vars

ClearAllResult ==
  [][lastAction'.type = "CLEAR_ALL"
       => /\ Doc(state') = PristineDoc
          /\ Doc(state) # PristineDoc
               => /\ state'.selectedNodeIds = <<ROOT_NODE_ID>>
                  /\ state'.selectedAnnotationId = null
                  /\ state'.selectedShapeId = null
          /\ Doc(state) = PristineDoc => state' = state]_vars

\* A CLEAR_ALL has reset a document that held an annotation.
ClearAllResultWitness ==
  /\ lastAction.type = "CLEAR_ALL"
  /\ Len(past) > 0
  /\ Len(LastPast.annotations) > 0
  /\ Doc(state) = PristineDoc
  /\ state.selectedNodeIds = <<ROOT_NODE_ID>>

(***************************************************************************)
(* Vocabulary of the import and shape properties, written from the claims. *)
(***************************************************************************)
ValidNodeItem(item) == {"id", "parentId", "text", "x", "y"} \subseteq DOMAIN item

ValidAnnotationItem(item) == {"id", "text", "x", "y"} \subseteq DOMAIN item

\* The file gives no node list with at least one valid node.
InvalidImport(file) ==
  \/ ~file.parses
  \/ "nodes" \notin DOMAIN file.parsed
  \/ \A i \in 1..Len(file.parsed.nodes) : ~ValidNodeItem(file.parsed.nodes[i])

RequiredShapeFields(kind) ==
  CASE kind = "ring" -> {"id", "x", "y", "radius", "thickness"}
    [] kind = "ellipse" -> {"id", "x", "y", "radiusX", "radiusY", "thickness"}
    [] kind = "rectangle" -> {"id", "x", "y", "width", "height", "thickness"}
    [] kind = "arrow" -> {"id", "x", "y", "width", "height", "thickness"}
    [] kind = "line" -> {"id", "x", "y", "length", "thickness"}

ValidShapeItem(item) ==
  /\ "kind" \in DOMAIN item
  /\ item.kind \in {"ring", "ellipse", "rectangle", "arrow", "line"}
  /\ RequiredShapeFields(item.kind) \subseteq DOMAIN item

\* Every dimension of the shape is at or above the minimum of its kind.
AtLeastMinimum(shape) ==
  CASE shape.kind = "ring" -> shape.radius >= RING_MIN_RADIUS
    [] shape.kind = "ellipse" ->
         shape.radiusX >= ELLIPSE_MIN_RADIUS_X /\ shape.radiusY >= ELLIPSE_MIN_RADIUS_Y
    [] shape.kind = "rectangle" ->
         shape.width >= RECTANGLE_MIN_WIDTH /\ shape.height >= RECTANGLE_MIN_HEIGHT
    [] shape.kind = "arrow" ->
         /\ shape.width >= ARROW_MIN_WIDTH
         /\ shape.height >= ARROW_MIN_HEIGHT
         /\ shape.thickness >= ARROW_MIN_THICKNESS
    [] shape.kind = "line" ->
         shape.length >= LINE_MIN_LENGTH /\ shape.thickness >= LINE_MIN_THICKNESS

\* reader.onload has run for a file handleFileChange started to read.
FileRead == lastAction'.type = "reader.onload"

(***************************************************************************)
(* C15.  A rejected import changes nothing: when the file is not valid     *)
(* JSON, or its nodes key is missing, not a list, an empty list or a list  *)
(* without a valid node, no IMPORT is applied and the whole state (nodes,  *)
(* annotations, shapes, selection, past and future) is what it was.        *)
(***************************************************************************)
ImportRejected ==
  [][(FileRead /\ InvalidImport(lastAction'.file)) => state' = state]_vars

\* A file whose node list holds only malformed items was read in a state
\* with a history.
ImportRejectedWitness ==
  /\ lastAction.type = "reader.onload"
  /\ lastAction.file.parses
  /\ "nodes" \in DOMAIN lastAction.file.parsed
  /\ Len(lastAction.file.parsed.nodes) > 0
  /\ InvalidImport(lastAction.file)
  /\ Len(past) > 0
  /\ Len(state.shapes) > 0

(***************************************************************************)
(* C16.  Round trip: for every document the editor reaches, importing the  *)
(* file handleExportJson writes for it gives nodes, annotations and shapes *)
(* equal to the document's, field by field and in order.                   *)
(***************************************************************************)
RoundTrip == Doc(importFile(state, handleExportJson(state))) = Doc(state)

(***************************************************************************)
(* C17.  After a successful import every shape of the document has its     *)
(* dimensions at or above the minimums of its kind, and the shapes are the *)
(* items of the file's list that are of a known kind with every required   *)
(* field, in order: an unknown or malformed item is dropped and the rest   *)
(* of the file (nodes, annotations, other shapes) is imported.             *)
(***************************************************************************)
ImportedShapesAtLeastMinimum ==
  [][(FileRead /\ ~InvalidImport(lastAction'.file))
       => LET parsed == lastAction'.file.parsed
              items(key) == IF key \in DOMAIN parsed THEN parsed[key] ELSE <<>>
          IN /\ \A i \in 1..Len(state'.shapes) : AtLeastMinimum(state'.shapes[i])
             /\ Ids(state'.shapes) = Ids(SelectSeq(items("shapes"), ValidShapeItem))
             /\ Ids(state'.nodes) = Ids(SelectSeq(items("nodes"), ValidNodeItem))
             /\ Ids(state'.annotations) =
                  Ids(SelectSeq(items("annotations"), ValidAnnotationItem))]_vars

\* A file with a shape of unknown kind, a malformed ellipse and a ring below
\* the minimum radius was imported: the ring is there, at the minimum.
ImportedShapesWitness ==
  /\ lastAction.type = "reader.onload"
  /\ ~InvalidImport(lastAction.file)
  /\ "shapes" \in DOMAIN lastAction.file.parsed
  /\ \E i \in 1..Len(lastAction.file.parsed.shapes) :
       ~ValidShapeItem(lastAction.file.parsed.shapes[i])
  /\ \E i \in 1..Len(state.shapes) :
       state.shapes[i].kind = "ring" /\ state.shapes[i].radius = RING_MIN_RADIUS
  /\ Len(state.shapes) = 3

(***************************************************************************)
(* C18.  Creating a shape clamps it: after an ADD_SHAPE no shape of the    *)
(* document has a dimension below the minimum of its kind (a ring added    *)
(* with radius 10 is stored with the minimum radius 48).                   *)
(***************************************************************************)
AddShapeClamps ==
  [][lastAction'.type = "ADD_SHAPE"
       => \A i \in 1..Len(state'.shapes) : AtLeastMinimum(state'.shapes[i])]_vars

(***************************************************************************)
(* C19.  Every resize step keeps the minimums: after a shape-resize        *)
(* pointer move that updates a shape, whatever the pointer position, the   *)
(* ring radius is at least max(ring minimum, thickness/2 + 4), the ellipse *)
(* radii and the rectangle half-extents are at least their per-axis        *)
(* minimum and thickness/2 + 6, and the arrow width, height and thickness  *)
(* and the line length and thickness are at least their minimums.          *)
(***************************************************************************)
ResizedAtLeastMinimum(shape) ==
  /\ AtLeastMinimum(shape)
  /\ shape.kind = "ring" => 2 * shape.radius >= shape.thickness + 8 * Unit
  /\ shape.kind = "ellipse" =>
       /\ 2 * shape.radiusX >= shape.thickness + 12 * Unit
       /\ 2 * shape.radiusY >= shape.thickness + 12 * Unit
  /\ shape.kind = "rectangle" =>
       /\ shape.width >= shape.thickness + 12 * Unit
       /\ shape.height >= shape.thickness + 12 * Unit

ResizeKeepsMinimum ==
  [][(/\ lastAction'.type = "handlePointerMove"
      /\ lastAction'.interaction.mode = "shape-resize"
      /\ Len(lastAction'.dispatched) > 0)
       => /\ Ids(state'.shapes) = Ids(state.shapes)
          /\ \A i \in 1..Len(state'.shapes) :
               state'.shapes[i].id = lastAction'.interaction.shapeId
                 => /\ state'.shapes[i] # state.shapes[i]
                    /\ ResizedAtLeastMinimum(state'.shapes[i])]_vars

\* The handle of a ring was dragged to within five pixels of its center and
\* the ring, wider than the minimum before, was resized to the floor its
\* thickness sets, above the ring minimum.
ResizeKeepsMinimumWitness ==
  /\ lastAction.type = "handlePointerMove"
  /\ lastAction.interaction.mode = "shape-resize"
  /\ Len(lastAction.dispatched) > 0
  /\ lastAction.scenePoint = [x |-> 5 * Unit, y |-> 0]
  /\ \E i \in 1..Len(state.shapes) :
       /\ state.shapes[i].id = lastAction.interaction.shapeId
       /\ state.shapes[i].kind = "ring"
       /\ state.shapes[i].radius > RING_MIN_RADIUS
       /\ 2 * state.shapes[i].radius = state.shapes[i].thickness + 8 * Unit

(***************************************************************************)
(* C20.  In every reachable state the textSize of every node and of every  *)
(* annotation is small, medium or large: a value outside these carried by  *)
(* an add, an update, a batch update or an import is stored as medium.     *)
(***************************************************************************)
TextSizeNormalized ==
  /\ \A i \in 1..Len(state.nodes) : state.nodes[i].textSize \in {"small", "medium", "large"}
  /\ \A i \in 1..Len(state.annotations) :
       state.annotations[i].textSize \in {"small", "medium", "large"}

(***************************************************************************)
(* C21.  No dangling parent reference: in every reachable state every node *)
(* whose parentId is not null has a parentId that is the id of a node of   *)
(* the document.                                                           *)
(***************************************************************************)
NoDanglingParent ==
  \A i \in 1..Len(state.nodes) :
    state.nodes[i].parentId # null => state.nodes[i].parentId \in IdSet(state.nodes)

\* The ids reachable from the ids of S by following parentId links upwards.
RECURSIVE ReachableUp(_, _)
ReachableUp(nodes, S) ==
  LET more == S \cup {nodes[i].parentId :
                        i \in {j \in 1..Len(nodes) :
                                 nodes[j].id \in S /\ nodes[j].parentId # null}}
  IN IF more = S THEN S ELSE ReachableUp(nodes, more)

\* The proper ancestors of id: the ids its parentId links lead to.
AncestorIds(nodes, id) ==
  ReachableUp(nodes, {nodes[i].parentId :
                        i \in {j \in 1..Len(nodes) :
                                 nodes[j].id = id /\ nodes[j].parentId # null}})

(***************************************************************************)
(* C22.  The parent links form a forest: in every reachable state no node  *)
(* is its own ancestor, so that following parentId links from any node     *)
(* ends at a node without parent (or at a missing id) without revisiting a *)
(* node.                                                                   *)
(***************************************************************************)
ParentLinksAreForest ==
  \A i \in 1..Len(state.nodes) :
    state.nodes[i].id \notin AncestorIds(state.nodes, state.nodes[i].id)

SecondPointerIgnored ==
  [][(/\ lastAction'.type = "handlePointerDown"
      /\ interactionRef.mode # "none"
      /\ interactionRef.pointerId # lastAction'.event.pointerId)
       => interactionRef' = interactionRef]_vars

(***************************************************************************)
(* C25.  The interaction is released on pointer-up and on pointer-cancel:  *)
(* after either event for the pointer that owns the interaction there is   *)
(* no interaction, and whatever the interleaving of the events of several  *)
(* pointers, when no pointer is down any more there is no interaction.     *)
(***************************************************************************)
InteractionReleased ==
  [][/\ (/\ lastAction'.type \in {"handlePointerUp", "handlePointerCancel"}
         /\ interactionRef.mode # "none"
         /\ interactionRef.pointerId = lastAction'.pointerId)
          => interactionRef' = NoInteraction
     /\ pressed' = {} => interactionRef' = NoInteraction]_vars

\* After two events that start something, the cancel of the pointer that
\* owned a drag of an entity released it, and no pointer is down any more.
InteractionReleasedWitness ==
  /\ lastAction.type = "handlePointerCancel"
  /\ lastAction.interaction.mode \in {"node", "annotation", "shape-move", "shape-resize"}
  /\ lastAction.interaction.pointerId = lastAction.pointerId
  /\ interactionRef = NoInteraction
  /\ pressed = {}
  /\ steps = 2

\* The handlers that call adjustZoom.
ZoomTypes == {"handleWheel", "handleZoomIn", "handleZoomOut"}

(***************************************************************************)
(* C26.  The scale of the view is between 0.25 and 2.5 in every reachable  *)
(* state of the view, whatever the zooms (wheel with a pivot, zoom in and  *)
(* zoom out by the step 1.2), pans, window sizes and fits to content.      *)
(***************************************************************************)
ScaleWithinRange ==
  /\ ~RLess(viewTransform.scale, MIN_ZOOM)
  /\ ~RLess(MAX_ZOOM, viewTransform.scale)

\* A zoom in from a scale below the maximum whose product with the step is
\* above the maximum has left the scale at the maximum.
ScaleWithinRangeWitness ==
  /\ lastAction.type = "handleZoomIn"
  /\ RLess(lastAction.previous.scale, MAX_ZOOM)
  /\ RLess(MAX_ZOOM, RMul(lastAction.previous.scale, lastAction.factor))
  /\ viewTransform.scale = MAX_ZOOM

(***************************************************************************)
(* C27.  Zoom to the cursor: the scene point under the pivot of a wheel    *)
(* zoom is the same before and after the zoom; and a zoom (with or without *)
(* pivot) whose clamped scale is the current scale leaves the scale and    *)
(* both offsets as they are.                                               *)
(***************************************************************************)
ZoomFixedPoint ==
  [][/\ lastAction'.type = "handleWheel"
          => scenePointIn(viewTransform', sizeRef',
                          lastAction'.pivot.screenX, lastAction'.pivot.screenY)
               = scenePointIn(viewTransform, sizeRef,
                              lastAction'.pivot.screenX, lastAction'.pivot.screenY)
     /\ (/\ lastAction'.type \in ZoomTypes
         /\ clamp(RMul(viewTransform.scale, lastAction'.factor), MIN_ZOOM, MAX_ZOOM)
              = viewTransform.scale)
          => viewTransform' = viewTransform]_vars

\* A wheel zoom about a pivot off the middle of the canvas has changed the
\* scale and the offsets of a view that was fitted to the content and panned.
ZoomFixedPointWitness ==
  /\ lastAction.type = "handleWheel"
  /\ sizeRef.width > 0
  /\ 2 * lastAction.pivot.screenX # sizeRef.width
  /\ lastAction.previous.scale # Whole(1)
  /\ lastAction.previous.offsetX # Whole(0)
  /\ viewTransform.scale # lastAction.previous.scale
  /\ viewTransform.offsetX # lastAction.previous.offsetX
  /\ viewTransform.offsetY # lastAction.previous.offsetY

(***************************************************************************)
(* Startup as a state machine of its own: MindMapProvider constructs the   *)
(* state with loadPersistedState from what localStorage holds, which may   *)
(* be any payload (written by an earlier version, edited, or truncated).   *)
(* A payload is put together from one choice per key; a key may be absent. *)
(***************************************************************************)
Absent == [has |-> FALSE]

Given(v) == [has |-> TRUE, v |-> v]

PayloadField(key, option) == [k \in (IF option.has THEN {key} ELSE {}) |-> option.v]

\* A node without position and color, which isMindMapNode rejects.
MalformedNode == [id |-> "bad", text |-> "Idea"]

\* A ring of thickness 0, which isMindMapShape rejects.
InvalidRing == [Ring("ring0") EXCEPT !.thickness = 0]

LoadPayloads ==
  {[stored |-> FALSE]} \cup
  { Spread(Spread(Spread(Spread(Spread(Spread(Spread([stored |-> TRUE],
      PayloadField("nodes", nodes)),
      PayloadField("annotations", extras.annotations)),
      PayloadField("shapes", extras.shapes)),
      PayloadField("selectedNodeIds", selectedNodeIds)),
      PayloadField("selectedNodeId", selectedNodeId)),
      PayloadField("selectedAnnotationId", selectedAnnotationId)),
      PayloadField("selectedShapeId", selectedShapeId)) :
      nodes \in {Absent, Given(<<>>), Given(<<MalformedNode>>), Given(<<Node("a", null)>>),
                 Given(<<MalformedNode, Node("b", null), Node("a", "b")>>)},
      extras \in {[annotations |-> Absent, shapes |-> Absent],
                  [annotations |-> Given(<<Annotation("note1"), Annotation("note2")>>),
                   shapes |-> Given(<<InvalidRing, Ring("ring1"), Ring("ring2")>>)]},
      selectedNodeIds \in {Absent, Given(<<"gone">>), Given(<<"gone", "a">>),
                           Given(<<"a", "a">>)},
      selectedNodeId \in {Absent, Given(null), Given("gone"), Given("a")},
      selectedAnnotationId \in {Absent, Given("gone"), Given("note2")},
      selectedShapeId \in {Given("ring0"), Given("ring2")} }

InitLoad ==
  /\ state = initialState
  /\ lastAction = [type |-> "INIT"]
  /\ steps = 0
  /\ isLocked = FALSE
  /\ InitCanvas

\* useReducer(mindMapReducer, undefined, loadPersistedState): the page is
\* opened and the provider constructs the state from the stored payload.
MindMapProvider ==
  \E parsed \in LoadPayloads :
    /\ steps < MaxSteps
    /\ state' = loadPersistedState(parsed)
    /\ lastAction' = [type |-> "loadPersistedState", parsed |-> parsed]
    /\ steps' = steps + 1
    /\ UNCHANGED <<isLocked, canvasVars>>

NextLoad == MindMapProvider

SpecLoad == InitLoad /\ [][NextLoad]_vars

\* The ids of a kind the payload names that match an entity of the loaded
\* document, and whether the payload names an id of that kind at all.
PayloadNodeIds(parsed) ==
  Range(listOf(parsed, "selectedNodeIds"))
    \cup (IF "selectedNodeId" \in DOMAIN parsed /\ parsed.selectedNodeId # null
          THEN {parsed.selectedNodeId} ELSE {})

PayloadId(parsed, key) ==
  IF key \in DOMAIN parsed /\ parsed[key] # null THEN {parsed[key]} ELSE {}

\* The first entity of a list, or none.
FirstOrNone(list) == IF Len(list) > 0 THEN list[1].id ELSE null

\* The payload has no usable nodes: missing, not a list, or all invalid.
NoUsableNodes(parsed) ==
  \/ ~parsed.stored
  \/ "nodes" \notin DOMAIN parsed
  \/ \A i \in 1..Len(parsed.nodes) : ~isMindMapNode(parsed.nodes[i])

(***************************************************************************)
(* C28.  The state loaded at startup never has a stale selection: every    *)
(* selected id is an entity of the loaded document.  A payload without     *)
(* usable nodes gives the default initial state, and the loaded state has  *)
(* empty past and future.  Otherwise: the node selection is the payload's  *)
(* selectedNodeIds that exist; when none exists it is the payload's        *)
(* selectedNodeId if that exists, nothing if the payload's selectedNodeId  *)
(* is null, and the first node in every other case.  The selected          *)
(* annotation (shape) is the payload's if it exists, and otherwise the     *)
(* first annotation (shape), or none when there is none.                   *)
(***************************************************************************)
LoadedSelection ==
  lastAction.type = "loadPersistedState" =>
    LET parsed == lastAction.parsed
        kept == SelectSeq(listOf(parsed, "selectedNodeIds"),
                          LAMBDA id : id \in IdSet(state.nodes))
    IN /\ Range(state.selectedNodeIds) \subseteq IdSet(state.nodes)
       /\ state.selectedAnnotationId \in IdSet(state.annotations) \cup {null}
       /\ state.selectedShapeId \in IdSet(state.shapes) \cup {null}
       /\ state.history = [past |-> <<>>, future |-> <<>>]
       /\ NoUsableNodes(parsed) => state = initialState
       /\ ~NoUsableNodes(parsed) =>
            /\ state.selectedNodeIds =
                 IF kept # <<>> THEN kept
                 ELSE IF PayloadId(parsed, "selectedNodeId") \subseteq IdSet(state.nodes)
                         /\ PayloadId(parsed, "selectedNodeId") # {}
                      THEN <<parsed.selectedNodeId>>
                 ELSE IF "selectedNodeId" \in DOMAIN parsed /\ parsed.selectedNodeId = null
                      THEN <<>>
                 ELSE <<state.nodes[1].id>>
            /\ state.selectedAnnotationId =
                 IF PayloadId(parsed, "selectedAnnotationId") \cap IdSet(state.annotations) # {}
                 THEN parsed.selectedAnnotationId
                 ELSE FirstOrNone(state.annotations)
            /\ state.selectedShapeId =
                 IF PayloadId(parsed, "selectedShapeId") \cap IdSet(state.shapes) # {}
                 THEN parsed.selectedShapeId
                 ELSE FirstOrNone(state.shapes)

\* A payload with valid nodes whose selection ids of all three kinds are
\* stale has been loaded: the first node, annotation and shape are selected.
LoadedSelectionWitness ==
  /\ lastAction.type = "loadPersistedState"
  /\ ~NoUsableNodes(lastAction.parsed)
  /\ PayloadNodeIds(lastAction.parsed) = {"gone"}
  /\ PayloadId(lastAction.parsed, "selectedAnnotationId") = {"gone"}
  /\ PayloadId(lastAction.parsed, "selectedShapeId") = {"ring0"}
  /\ Len(state.nodes) = 2
  /\ state.selectedNodeIds = <<"b">>
  /\ state.selectedAnnotationId = "note1"
  /\ state.selectedShapeId = "ring1"

\* C28 as stated: whenever the payload names selection ids of a kind and
\* none of them matches an entity of the loaded document, the first entity
\* of that kind is selected, or none when there is no such entity.
StaleSelectionReplacedByFirst ==
  (lastAction.type = "loadPersistedState" /\ ~NoUsableNodes(lastAction.parsed)) =>
    LET parsed == lastAction.parsed
    IN /\ (PayloadNodeIds(parsed) # {} /\ PayloadNodeIds(parsed) \cap IdSet(state.nodes) = {})
            => state.selectedNodeIds = <<state.nodes[1].id>>
       /\ (PayloadId(parsed, "selectedAnnotationId") # {}
           /\ PayloadId(parsed, "selectedAnnotationId") \cap IdSet(state.annotations) = {})
            => state.selectedAnnotationId = FirstOrNone(state.annotations)
       /\ (PayloadId(parsed, "selectedShapeId") # {}
           /\ PayloadId(parsed, "selectedShapeId") \cap IdSet(state.shapes) = {})
            => state.selectedShapeId = FirstOrNone(state.shapes)

(***************************************************************************)
(* C29.  The lock prevents edits: a step taken while the canvas is locked  *)
(* (locked before and after it) changes neither nodes, annotations and     *)
(* shapes nor past and future, whatever the event, the completion of a     *)
(* file read included; and the step that turns the lock on leaves no       *)
(* interaction in progress.                                                *)
(***************************************************************************)
LockPreventsEdits ==
  [][/\ (isLocked /\ isLocked') =>
          /\ state'.nodes = state.nodes
          /\ state'.annotations = state.annotations
          /\ state'.shapes = state.shapes
          /\ state'.history = state.history
     /\ (~isLocked /\ isLocked') => interactionRef' = NoInteraction]_vars

\* No two entities of a list share an id.
UniqueIdsIn(list) ==
  \A i, j \in 1..Len(list) : list[i].id = list[j].id => i = j

(***************************************************************************)
(* C30.  Entity ids are unique within their collection in every reachable  *)
(* state: no two nodes, no two annotations and no two shapes share an id.  *)
(***************************************************************************)
EntityIdsUnique ==
  /\ UniqueIdsIn(state.nodes)
  /\ UniqueIdsIn(state.annotations)
  /\ UniqueIdsIn(state.shapes)

\* No value occurs twice in a sequence.
NoRepeats(s) == \A i, j \in 1..Len(s) : s[i] = s[j] => i = j

(***************************************************************************)
(* C31.  The node selection is an ordered set: selectedNodeIds holds no id *)
(* twice in any reachable state, the state loaded from storage included.   *)
(* (selectedAnnotationId and selectedShapeId are single fields, an id or   *)
(* null, so at most one annotation and one shape are selected.)            *)
(***************************************************************************)
SelectionIsOrderedSet ==
  /\ NoRepeats(state.selectedNodeIds)
  /\ state.selectedAnnotationId \in STRING
  /\ state.selectedShapeId \in STRING

(***************************************************************************)
(* C32.  The selection setters never touch the document or the history:    *)
(* SET_SELECTED_NODES, TOGGLE_NODE_SELECTION, CLEAR_SELECTED_NODES,        *)
(* SELECT_ANNOTATION and SELECT_SHAPE leave nodes, annotations, shapes,    *)
(* past and future as they were, and a SELECT_ANNOTATION or SELECT_SHAPE   *)
(* that names an id that does not exist leaves the whole state unchanged.  *)
(***************************************************************************)
SelectionSettersFrame ==
  [][/\ lastAction'.type \in SelectionTypes =>
          /\ Doc(state') = Doc(state)
          /\ state'.history = state.history
     /\ (/\ lastAction'.type = "SELECT_ANNOTATION"
         /\ lastAction'.annotationId # null
         /\ lastAction'.annotationId \notin IdSet(state.annotations))
          => state' = state
     /\ (/\ lastAction'.type = "SELECT_SHAPE"
         /\ lastAction'.shapeId # null
         /\ lastAction'.shapeId \notin IdSet(state.shapes))
          => state' = state]_vars

\* A selection setter has changed the selection of a state with a past that
\* was not empty: the shape selected, the node selection emptied.
SelectionSettersFrameWitness ==
  /\ lastAction.type = "SELECT_SHAPE"
  /\ lastAction.shapeId = "ring1"
  /\ state.selectedShapeId = "ring1"
  /\ state.selectedNodeIds = <<>>
  /\ Len(past) = 2

(***************************************************************************)
(* C33.  Each add makes the new entity the only selection: after ADD_NODE  *)
(* the node selection is exactly the new node's id and no annotation or    *)
(* shape is selected; after ADD_ANNOTATION the new annotation is selected, *)
(* no node and no shape; after ADD_SHAPE the new shape is selected, no     *)
(* node and no annotation.                                                 *)
(***************************************************************************)
AddSelectsNewEntity ==
  /\ lastAction.type = "ADD_NODE" =>
       /\ state.selectedNodeIds = <<lastAction.node.id>>
       /\ state.selectedAnnotationId = null
       /\ state.selectedShapeId = null
       /\ state.nodes[Len(state.nodes)] = lastAction.node
  /\ lastAction.type = "ADD_ANNOTATION" =>
       /\ state.selectedAnnotationId = lastAction.annotation.id
       /\ state.selectedNodeIds = <<>>
       /\ state.selectedShapeId = null
       /\ state.annotations[Len(state.annotations)] = lastAction.annotation
  /\ lastAction.type = "ADD_SHAPE" =>
       /\ state.selectedShapeId = lastAction.shape.id
       /\ state.selectedNodeIds = <<>>
       /\ state.selectedAnnotationId = null
       /\ state.shapes[Len(state.shapes)] = lastAction.shape

\* An annotation has been added to a document that has nodes, a shape and
\* another annotation: only the new annotation is selected.
AddSelectsNewEntityWitness ==
  /\ lastAction.type = "ADD_ANNOTATION"
  /\ lastAction.annotation.id = "note2"
  /\ Len(state.annotations) = 2
  /\ Len(state.shapes) = 1
  /\ state.selectedAnnotationId = "note2"
  /\ state.selectedNodeIds = <<>>

DeleteAbsentNoOp ==
  [][/\ (lastAction'.type = "DELETE_NODE" /\ lastAction'.nodeId \notin IdSet(state.nodes))
          => state' = state
     /\ (/\ lastAction'.type = "DELETE_NODES"
         /\ Range(lastAction'.nodeIds) \cap IdSet(state.nodes) = {})
          => state' = state
     /\ (/\ lastAction'.type = "DELETE_ANNOTATION"
         /\ lastAction'.annotationId \notin IdSet(state.annotations))
          => state' = state
     /\ (lastAction'.type = "DELETE_SHAPE" /\ lastAction'.shapeId \notin IdSet(state.shapes))
          => state' = state]_vars

\* A list of ids none of which is a node has been deleted from a state with
\* a snapshot in future (a deletion that removed a node would have emptied
\* future): the snapshot is still there.
DeleteAbsentNoOpWitness ==
  /\ lastAction.type = "DELETE_NODES"
  /\ lastAction.nodeIds # <<>>
  /\ Range(lastAction.nodeIds) \cap IdSet(state.nodes) = {}
  /\ Len(future) > 0

(***************************************************************************)
(* C36.  UNDO and REDO only move snapshots between the two stacks.  An     *)
(* UNDO with a past that is not empty removes the last entry of past,      *)
(* which becomes the document, and puts the document it replaces at the    *)
(* front of future; a REDO with a future that is not empty removes the     *)
(* first entry of future, which becomes the document, and appends the      *)
(* document it replaces to past.  Neither changes                          *)
(* Len(past) + Len(future), and an UNDO followed at once by a REDO leaves  *)
(* past and future entry for entry as they were before the UNDO.           *)
(***************************************************************************)
StacksOnlyMove ==
  [][/\ (lastAction'.type = "UNDO" /\ Len(past) > 0) =>
          /\ state'.history.past = SubSeq(past, 1, Len(past) - 1)
          /\ state'.history.future = <<Doc(state)>> \o future
          /\ Doc(state') = LastPast
     /\ (lastAction'.type = "REDO" /\ Len(future) > 0) =>
          /\ state'.history.past = Append(past, Doc(state))
          /\ state'.history.future = Tail(future)
          /\ Doc(state') = Head(future)
     /\ lastAction'.type \in {"UNDO", "REDO"} =>
          Len(state'.history.past) + Len(state'.history.future) = Len(past) + Len(future)
     /\ Len(past) > 0 => ReduceRedo(ReduceUndo(state)).history = state.history]_vars

\* An UNDO has taken the second of two snapshots off past and left the
\* document it replaced in future.
StacksOnlyMoveWitness ==
  /\ lastAction.type = "UNDO"
  /\ Len(past) = 1
  /\ Len(future) = 1
  /\ Head(future) # Doc(state)
  /\ LastPast # Doc(state)

\* UNDO repeated until past is empty: the state it ends in and the number of
\* UNDOs it took.
RECURSIVE UndoAll(_, _)
UndoAll(s, undos) ==
  IF Len(s.history.past) = 0 THEN [state |-> s, undos |-> undos]
  ELSE UndoAll(ReduceUndo(s), undos + 1)

\* The document at the bottom of the undo stack: the oldest snapshot, or the
\* document itself when nothing can be undone.
Bottom(s) == IF Len(s.history.past) > 0 THEN s.history.past[1] ELSE Doc(s)

(***************************************************************************)
(* C37.  Undoing everything returns to the starting document.  A history   *)
(* reset (IMPORT; the startup load is the initial state) leaves past       *)
(* empty, so that the document right after it is the bottom of the undo    *)
(* stack; every later mutation, selection change, UNDO and REDO keeps that *)
(* bottom; and from every state UNDO repeated Len(past) times empties past *)
(* and ends in the bottom document.                                        *)
(***************************************************************************)
UndoAllReturnsToReset ==
  [][/\ lastAction'.type = "IMPORT" => Len(state'.history.past) = 0
     /\ lastAction'.type # "IMPORT" => Bottom(state') = Bottom(state)
     /\ UndoAll(state', 0).undos = Len(state'.history.past)
     /\ Len(UndoAll(state', 0).state.history.past) = 0
     /\ Doc(UndoAll(state', 0).state) = Bottom(state')]_vars

\* Two mutations after an import: two UNDOs lead back to the imported
\* document, which is not the present one.
UndoAllReturnsToResetWitness ==
  /\ Len(past) = 2
  /\ Bottom(state).nodes = <<Node("b", null)>>
  /\ Bottom(state).annotations = <<>>
  /\ Doc(state) # Bottom(state)
  /\ Doc(UndoAll(state, 0).state) = Bottom(state)

(***************************************************************************)
(* C38.  The cascade traversal terminates for every node list, cyclic      *)
(* parent links and repeated ids included: from every id the traversal     *)
(* returns, it adds no id twice, it adds only ids of the list, and what it *)
(* added is the set removeNodesAndDescendants removes.                     *)
(***************************************************************************)
TraversalVisitsOnce ==
  \A id \in NodeIds :
    LET trace == visitTrace(state.nodes, id, <<>>)
        result == removeNodesAndDescendants(state.nodes, <<id>>)
    IN /\ NoRepeats(trace)
       /\ Range(trace) \subseteq IdSet(state.nodes)
       /\ Len(trace) <= Cardinality(IdSet(state.nodes))
       /\ Range(trace) = visit(state.nodes, id, {})
       /\ Range(trace) = result.removedIds

\* A node of a list with a cycle of parent links and a repeated id has been
\* deleted: the traversal went round the cycle once and removed every node.
TraversalVisitsOnceWitness ==
  /\ lastAction.type = "DELETE_NODE"
  /\ Len(past) = 1
  /\ LastPast.nodes = <<Node("a", "b"), Node("b", "a"), Node("b", "a")>>
  /\ visitTrace(LastPast.nodes, lastAction.nodeId, <<>>) = <<"a", "b">>
  /\ state.nodes = <<>>

\* The three selections of a state.
SelectionOf(s) == <<s.selectedNodeIds, s.selectedAnnotationId, s.selectedShapeId>>

\* The pointer owns the interaction in progress.
Owns(pointerId, interaction) ==
  interaction.mode # "none" /\ interaction.pointerId = pointerId

(***************************************************************************)
(* C39.  A pan that ends with pointer-up without a pointer move farther    *)
(* than 2 pixels from where it started clears the three selections; a pan  *)
(* that moved farther, and any gesture that ends with pointer-cancel,      *)
(* leaves the selection as it was; a pointer-up or pointer-cancel of a     *)
(* pointer that does not own the interaction in progress leaves the        *)
(* interaction and the selection as they were.  A pan counts as moved from *)
(* the first pointer move farther than 2 pixels from its start on.         *)
(***************************************************************************)
PanEndSelection ==
  [][/\ (lastAction'.type = "handlePointerMove" /\ interactionRef.mode = "pan") =>
          LET deltaX == lastAction'.event.clientX - interactionRef.startClientX
              deltaY == lastAction'.event.clientY - interactionRef.startClientY
          IN /\ interactionRef'.moved =
                  (interactionRef.moved \/ deltaX * deltaX + deltaY * deltaY > 4)
             /\ SelectionOf(state') = SelectionOf(state)
     /\ (/\ lastAction'.type = "handlePointerUp"
         /\ Owns(lastAction'.pointerId, interactionRef)
         /\ interactionRef.mode = "pan") =>
          IF interactionRef.moved
          THEN state' = state
          ELSE /\ SelectionOf(state') = <<<<>>, null, null>>
               /\ Doc(state') = Doc(state)
               /\ state'.history = state.history
     /\ lastAction'.type = "handlePointerCancel" => state' = state
     /\ (/\ lastAction'.type \in {"handlePointerUp", "handlePointerCancel"}
         /\ ~Owns(lastAction'.pointerId, interactionRef)) =>
          /\ interactionRef' = interactionRef
          /\ state' = state]_vars

\* A pan that did not move has ended with pointer-up: nothing is selected.
PanEndSelectionWitness ==
  /\ lastAction.type = "handlePointerUp"
  /\ lastAction.interaction.mode = "pan"
  /\ lastAction.interaction.pointerId = lastAction.pointerId
  /\ ~lastAction.interaction.moved
  /\ SelectionOf(state) = <<<<>>, null, null>>
  /\ interactionRef = NoInteraction

\* The payload the provider's effect writes for a state, as JSON.parse gives
\* it back: JSON.stringify of the three lists and the three selection
\* fields.  The values of the model (strings, whole numbers, null, lists and
\* objects of them) are written and read back as they are; the history is
\* not part of the payload.
persistedPayload(s) ==
  [stored |-> TRUE,
   nodes |-> s.nodes,
   annotations |-> s.annotations,
   shapes |-> s.shapes,
   selectedNodeIds |-> s.selectedNodeIds,
   selectedAnnotationId |-> s.selectedAnnotationId,
   selectedShapeId |-> s.selectedShapeId]

(***************************************************************************)
(* C40.  Persisted storage round trip: in every reachable state, loading   *)
(* the payload written for the state gives nodes, annotations and shapes   *)
(* equal to the state's, with empty past and future.                       *)
(***************************************************************************)
PersistedRoundTrip ==
  LET loaded == loadPersistedState(persistedPayload(state))
  IN /\ Doc(loaded) = Doc(state)
     /\ loaded.history = [past |-> <<>>, future |-> <<>>]

=============================================================================
